---- MODULE Spec2Model ----
(***************************************************************************)
(* Reversible context-aware masking engine of click0/data-masking:         *)
(* data_masking.py (mapping store, instance tracking, per-category value   *)
(* generators, span detection and substitution) and unmask_data.py (the    *)
(* reverse engine).                                                        *)
(*                                                                         *)
(* Strings are sequences of one-character strings.  Cyrillic letters are   *)
(* written with Latin stand-ins, one element per letter: a b v h g d e ye   *)
(* zh z y i yi j k l m n o p r s t u f x c ch sh sch q yu ya stand for the   *)
(* Ukrainian alphabet in its order (q is the soft sign); "#" stands for    *)
(* the sign U+2116.  The Latin letters the inputs and the placeholders    *)
(* of the code use are written la, lb, ld, ... (upper case LA, LB, LD, ...).*)
(* hashlib and the Mersenne Twister are modelled by a small deterministic  *)
(* hash (one per HASH_ALGORITHM) and a deterministic draw function of      *)
(* (seed, draw index).                                                     *)
(***************************************************************************)
EXTENDS Integers, Sequences, FiniteSets, TLC

VARIABLES
    HASH_ALGORITHM,     \* data_masking.HASH_ALGORITHM, fixed for a process
    masking_dict,       \* [mappings, statistics, order] of one masking run
    instance_counters,  \* masked value -> running count
    fake_state,         \* state of the shared Faker generator fake_uk
    last,               \* the latest call: [op, arg, gender, ret]
    ncalls,             \* number of calls made so far
    nruns,              \* number of masking runs started so far
    first_masked,       \* history: <<category, original>> -> values generated for it
    text,               \* input text of the text pipeline
    masked_text,        \* output of mask_text_context_aware
    restored_text,      \* output of unmask_text_v2
    unmask_stats,       \* {restored_count, skipped_count} of unmask_text_v2
    pc                  \* position of the text pipeline

vars == <<HASH_ALGORITHM, masking_dict, instance_counters, fake_state, last, ncalls,
          nruns, first_masked, text, masked_text, restored_text, unmask_stats, pc>>

-----------------------------------------------------------------------------
(* Bounds of the model *)

MaxCalls == 3
SeedSpace == 61
FakerStates == 2
MaxRuns == 2
MaxRunCalls == 2

-----------------------------------------------------------------------------
(* Characters and the str methods the code uses *)

Digits == <<"0", "1", "2", "3", "4", "5", "6", "7", "8", "9">>
LowerLetters == <<"a", "b", "c", "d", "e", "f", "g", "h", "i", "j", "k", "l", "m",
                  "n", "o", "p", "q", "r", "s", "t", "u", "v", "w", "x", "y", "z",
                  "ye", "zh", "yi", "ch", "sh", "sch", "yu", "ya">>
UpperLetters == <<"A", "B", "C", "D", "E", "F", "G", "H", "I", "J", "K", "L", "M",
                  "N", "O", "P", "Q", "R", "S", "T", "U", "V", "W", "X", "Y", "Z",
                  "YE", "ZH", "YI", "CH", "SH", "SCH", "YU", "YA">>
Specials == <<" ", "\n", "-", "/", ".", ",", "#", "_">>
LatinLower == <<"la", "lb", "ld", "le", "li", "lk", "lm", "ln", "lp", "lr", "ls">>
LatinUpper == <<"LA", "LB", "LD", "LE", "LI", "LK", "LM", "LN", "LP", "LR", "LS">>
MoreSpecials == <<":", ";", "!", "?", "=">>
Alphabet == Digits \o LowerLetters \o UpperLetters \o Specials \o LatinLower \o LatinUpper
            \o MoreSpecials

Range(s) == {s[i] : i \in DOMAIN s}
\* The value of a one-point function [x \in {v} |-> e]: e with x standing for v, v computed once
With(f) == f[CHOOSE x \in DOMAIN f : TRUE]
\* table.get(key, default)
Get(table, key, default) == IF key \in DOMAIN table THEN table[key] ELSE default
IndexIn(s, c) == CHOOSE i \in DOMAIN s : s[i] = c

DigitSet == Range(Digits)
LowerSet == Range(LowerLetters) \cup Range(LatinLower)
UpperSet == Range(UpperLetters) \cup Range(LatinUpper)
IsDigit(c) == c \in DigitSet
IsLowerChar(c) == c \in LowerSet
IsUpperChar(c) == c \in UpperSet
IsAlpha(c) == IsLowerChar(c) \/ IsUpperChar(c)
IsWordChar(c) == IsDigit(c) \/ IsAlpha(c) \/ c = "_"
IsSpace(c) == c \in {" ", "\n"}
\* the classes [A-Z], [a-z] and, the letters outside U+0410..U+044F left out, [А-Я], [а-я]
LatinUpperSet == Range(LatinUpper)
LatinLowerSet == Range(LatinLower)
CyrUpperSet == Range(UpperLetters) \ {"G", "YE", "I", "YI", "W"}
CyrLowerSet == Range(LowerLetters) \ {"g", "ye", "i", "yi", "w"}
IsLatinUpper(c) == c \in LatinUpperSet
IsLatinLower(c) == c \in LatinLowerSet
IsCyrUpper(c) == c \in CyrUpperSet
\* the character classes [A-ZА-Я] and [a-zа-я]
IsRangeUpper(c) == c \in LatinUpperSet \cup CyrUpperSet
IsRangeLower(c) == c \in LatinLowerSet \cup CyrLowerSet
IsCyrLower(c) == c \in CyrLowerSet

DigitValOf == [c \in DigitSet |-> IndexIn(Digits, c) - 1]
DigitVal(c) == DigitValOf[c]
DigitChar(n) == Digits[n + 1]

UpperOf == [c \in LowerSet |-> (UpperLetters \o LatinUpper)[IndexIn(LowerLetters \o LatinLower, c)]]
LowerOf == [c \in UpperSet |-> (LowerLetters \o LatinLower)[IndexIn(UpperLetters \o LatinUpper, c)]]
UpperChar(c) == IF IsLowerChar(c) THEN UpperOf[c] ELSE c
LowerChar(c) == IF IsUpperChar(c) THEN LowerOf[c] ELSE c

\* str.upper(), str.lower()
upper(s) == [i \in DOMAIN s |-> UpperChar(s[i])]
lower(s) == [i \in DOMAIN s |-> LowerChar(s[i])]
\* str.isupper(): at least one cased character and no lower-case one
isupper(s) == (\E i \in DOMAIN s : IsUpperChar(s[i])) /\ (\A i \in DOMAIN s : ~IsLowerChar(s[i]))
\* str.islower()
islower(s) == (\E i \in DOMAIN s : IsLowerChar(s[i])) /\ (\A i \in DOMAIN s : ~IsUpperChar(s[i]))
\* str.isdigit(): non-empty and all digits
isdigit(s) == Len(s) > 0 /\ \A i \in DOMAIN s : IsDigit(s[i])
\* str.capitalize(): first character upper, the rest lower
capitalize(s) == [i \in DOMAIN s |-> IF i = 1 THEN UpperChar(s[i]) ELSE LowerChar(s[i])]
\* str.title(): a letter after a non-letter is upper, any other letter lower
title(s) == [i \in DOMAIN s |-> IF i = 1 \/ ~IsAlpha(s[IF i = 1 THEN 1 ELSE i - 1])
                                 THEN UpperChar(s[i]) ELSE LowerChar(s[i])]
\* str.istitle()
istitle(s) == /\ \E i \in DOMAIN s : IsUpperChar(s[i])
              /\ \A i \in DOMAIN s :
                    LET afterLetter == i > 1 /\ IsAlpha(s[IF i = 1 THEN 1 ELSE i - 1])
                    IN  /\ IsUpperChar(s[i]) => ~afterLetter
                        /\ IsLowerChar(s[i]) => afterLetter

\* s[a:b] of Python for 0 <= a, with b clipped to len(s)
Slice(s, a, b) == SubSeq(s, a + 1, IF b > Len(s) THEN Len(s) ELSE b)
\* s[:n], s[-n:] for n >= 0
Prefix(s, n) == Slice(s, 0, n)
Suffix(s, n) == IF n = 0 THEN s ELSE SubSeq(s, (IF Len(s) - n < 0 THEN 0 ELSE Len(s) - n) + 1, Len(s))
Contains(s, c) == \E i \in DOMAIN s : s[i] = c

Min(a, b) == IF a < b THEN a ELSE b
Max(a, b) == IF a > b THEN a ELSE b
\* min(S)
Least(S) == CHOOSE x \in S : \A y \in S : x <= y

-----------------------------------------------------------------------------
(* Seeds and pseudo-random draws *)

\* the hash algorithms get_deterministic_seed knows
HashAlgorithms == {"md5", "sha1", "sha256", "blake2b", "sha512"}
HashMultiplier(alg) ==
    CASE alg = "md5" -> 31 [] alg = "sha1" -> 37 [] alg = "sha256" -> 41
      [] alg = "blake2b" -> 43 [] alg = "sha512" -> 47

CharCodeOf == [c \in Range(Alphabet) |-> IndexIn(Alphabet, c)]
CharCode(c) == CharCodeOf[c]

RECURSIVE HashFold(_, _, _)
HashFold(s, alg, h) ==
    IF s = << >> THEN h
    ELSE HashFold(Tail(s), alg, (h * HashMultiplier(alg) + CharCode(Head(s))) % SeedSpace)

\* int(hasher.hexdigest(), 16) % (2**32), with the seed space bounded
get_deterministic_seed(original) == HashFold(original, HASH_ALGORITHM, Len(original) + 7)

\* the k-th raw output of a generator after seed(seed)
RandRaw(seed, k) ==
    ((((seed + 3) * (k + 2) * 7919) % 65521)
        + ((((seed * seed + k * k + seed * k) % 65521) * 1049) % 65521)) % 65521
\* random.randint(a, b) as the k-th draw after random.seed(seed)
randint(seed, k, a, b) == a + (RandRaw(seed, k) % (b - a + 1))
\* random.choice(seq) as the k-th draw after random.seed(seed)
choice(seed, k, seq) == seq[1 + (RandRaw(seed, k) % Len(seq))]

-----------------------------------------------------------------------------
(* Mapping store and instance tracking *)

Categories == {"ipn", "passport_id", "military_id", "surname", "name", "military_unit",
               "order_number", "order_number_with_letters", "br_number", "br_number_slash",
               "br_number_complex", "rank", "brigade_number", "date", "patronymic"}

EmptyFcn == [x \in {} |-> 0]
Extend(f, k, v) == [x \in (DOMAIN f) \cup {k} |-> IF x = k THEN v ELSE f[x]]

\* main(): the store and the counters a run starts with
\* (order: the <<category, original>> keys in the order the dicts received them)
EmptyMaskingDict == [mappings |-> [c \in Categories |-> EmptyFcn],
                     statistics |-> [c \in Categories |-> 0],
                     order |-> << >>]

get_next_instance_reset(masked_value, ic) ==
    [ret |-> 1, ic |-> Extend(ic, masked_value, 1)]

get_next_instance(masked_value, ic) ==
    LET cur == IF masked_value \in DOMAIN ic THEN ic[masked_value] ELSE 0
    IN  [ret |-> cur + 1, ic |-> Extend(ic, masked_value, cur + 1)]

add_to_mapping_overwrite(md, ic, category, original, masked) ==
    LET nxt == get_next_instance(masked, ic)
        rec == [masked_as |-> masked, instances |-> <<nxt.ret>>]
    IN  [ret |-> masked,
         md  |-> [mappings |-> [md.mappings EXCEPT ![category] = Extend(@, original, rec)],
                  statistics |-> [md.statistics EXCEPT ![category] = @ + 1],
                  order |-> IF original \in DOMAIN md.mappings[category] THEN md.order
                            ELSE Append(md.order, <<category, original>>)],
         ic  |-> nxt.ic]

add_to_mapping(md, ic, category, original, masked) ==
    LET isNew == original \notin DOMAIN md.mappings[category]
        m     == IF isNew THEN masked ELSE md.mappings[category][original].masked_as
        old   == IF isNew THEN [masked_as |-> masked, instances |-> << >>]
                 ELSE md.mappings[category][original]
        nxt   == get_next_instance(m, ic)
        rec   == [old EXCEPT !.instances = Append(@, nxt.ret)]
    IN  [ret |-> m,
         md  |-> [mappings |-> [md.mappings EXCEPT ![category] = Extend(@, original, rec)],
                  statistics |-> IF isNew THEN [md.statistics EXCEPT ![category] = @ + 1]
                                 ELSE md.statistics,
                  order |-> IF isNew THEN Append(md.order, <<category, original>>)
                            ELSE md.order],
         ic  |-> nxt.ic]

\* a generator's early return: the input comes back and nothing is recorded
PassThrough(original, md, ic) == [ret |-> original, md |-> md, ic |-> ic]

-----------------------------------------------------------------------------
(* Identifier generators *)

\* ''.join(str(random.randint(0, 9)) for _ in range(n)) after random.seed(seed)
RandomDigits(seed, n) == [i \in 1..n |-> DigitChar(randint(seed, i, 0, 9))]

\* re.sub(r'[\s\-.]', '', str(identifier).upper())
normalize_identifier(identifier) ==
    SelectSeq(upper(identifier), LAMBDA c : ~(IsSpace(c) \/ c = "-" \/ c = "."))

Mapped(md, category, original) == original \in DOMAIN md.mappings[category]
Stored(md, category, original) == md.mappings[category][original].masked_as

mask_ipn_keep2(original, md, ic) ==
    IF Mapped(md, "ipn", original)
    THEN add_to_mapping(md, ic, "ipn", original, Stored(md, "ipn", original))
    ELSE IF Len(original) # 10 \/ ~isdigit(original) THEN PassThrough(original, md, ic)
    ELSE add_to_mapping(md, ic, "ipn", original,
            Prefix(original, 2) \o RandomDigits(get_deterministic_seed(original), 7)
                \o Suffix(original, 1))

mask_ipn(original, md, ic) ==
    IF Mapped(md, "ipn", original)
    THEN add_to_mapping(md, ic, "ipn", original, Stored(md, "ipn", original))
    ELSE IF Len(original) # 10 \/ ~isdigit(original) THEN PassThrough(original, md, ic)
    ELSE LET seed   == get_deterministic_seed(original)
             middle == RandomDigits(seed, 6)
             masked == Prefix(original, 3) \o middle \o Suffix(original, 1)
         IN  add_to_mapping(md, ic, "ipn", original, masked)

mask_passport_id(original, md, ic) ==
    IF Mapped(md, "passport_id", original)
    THEN add_to_mapping(md, ic, "passport_id", original, Stored(md, "passport_id", original))
    ELSE IF Len(original) # 9 \/ ~isdigit(original) THEN PassThrough(original, md, ic)
    ELSE LET seed   == get_deterministic_seed(original)
             middle == RandomDigits(seed, 5)
             masked == Prefix(original, 3) \o middle \o Suffix(original, 1)
         IN  add_to_mapping(md, ic, "passport_id", original, masked)

\* re.match(r'^([A-ZА-Я]{2})?(\d{6})$', normalized)
MilitaryIdMatches(normalized) ==
    \/ Len(normalized) = 6 /\ isdigit(normalized)
    \/ /\ Len(normalized) = 8
       /\ IsRangeUpper(normalized[1]) /\ IsRangeUpper(normalized[2])
       /\ isdigit(Suffix(normalized, 6))

mask_military_id(original, md, ic) ==
    IF Mapped(md, "military_id", original)
    THEN add_to_mapping(md, ic, "military_id", original, Stored(md, "military_id", original))
    ELSE LET normalized == normalize_identifier(original)
         IN  IF ~MilitaryIdMatches(normalized) THEN PassThrough(original, md, ic)
             ELSE LET prefix == IF Len(normalized) = 8 THEN Prefix(normalized, 2) ELSE << >>
                      digits == Suffix(normalized, 6)
                      seed   == get_deterministic_seed(original)
                      middle == RandomDigits(seed, 2)
                      masked_digits == Prefix(digits, 2) \o middle \o Suffix(digits, 2)
                      masked == IF Contains(original, " ")
                                THEN (IF prefix # << >> THEN prefix \o <<" ">> \o masked_digits
                                      ELSE masked_digits)
                                ELSE IF Contains(original, "-")
                                THEN (IF prefix # << >> THEN prefix \o <<"-">> \o masked_digits
                                      ELSE masked_digits)
                                ELSE prefix \o masked_digits
                  IN  add_to_mapping(md, ic, "military_id", original, masked)

\* re.match(r'^([А-ЯA-Z])(\d{4})$', original); "$" also matches before a final newline
MilitaryUnitMatches(original) ==
    LET body == IF Len(original) = 6 /\ original[6] = "\n" THEN Prefix(original, 5) ELSE original
    IN  Len(body) = 5 /\ IsRangeUpper(body[1]) /\ isdigit(Suffix(body, 4))

mask_military_unit(original, md, ic) ==
    IF Mapped(md, "military_unit", original)
    THEN add_to_mapping(md, ic, "military_unit", original, Stored(md, "military_unit", original))
    ELSE IF ~MilitaryUnitMatches(original) THEN PassThrough(original, md, ic)
    ELSE LET letter == Prefix(original, 1)
             seed   == get_deterministic_seed(original)
             digits == RandomDigits(seed, 4)
         IN  add_to_mapping(md, ic, "military_unit", original, letter \o digits)

-----------------------------------------------------------------------------
(* Calls of the generators on one store *)

NoCall == [op |-> "none", category |-> "", arg |-> << >>, gender |-> "", supplied |-> << >>,
           ret |-> << >>]
NoStats == [restored_count |-> 0, skipped_count |-> 0]

\* a fresh process: empty store, no call made, Faker seeded from OS entropy
InitRun ==
    /\ HASH_ALGORITHM \in HashAlgorithms
    /\ masking_dict = EmptyMaskingDict
    /\ instance_counters = EmptyFcn
    /\ fake_state \in {[seed |-> SeedSpace + e, k |-> 0] : e \in 1..FakerStates}
    /\ last = NoCall
    /\ ncalls = 0
    /\ nruns = 1
    /\ first_masked = EmptyFcn

AllKeys(md) == UNION {{<<c, o>> : o \in DOMAIN md.mappings[c]} : c \in Categories}
\* the <<category, original>> pairs recorded in md and not in the current store
NewKeys(md) == {p \in AllKeys(md) : p[2] \notin DOMAIN masking_dict.mappings[p[1]]}

\* history of the values generated for an original on a first encounter
RecordFirst(md) ==
    [p \in (DOMAIN first_masked) \cup NewKeys(md) |->
        (IF p \in DOMAIN first_masked THEN first_masked[p] ELSE {})
        \cup (IF p \in NewKeys(md) THEN {md.mappings[p[1]][p[2]].masked_as} ELSE {})]

\* one call of a masking function on the store of the run
DoCall(op, category, arg, gender, supplied, r, fk) ==
    /\ pc = "calls"
    /\ ncalls < MaxCalls
    /\ masking_dict' = r.md
    /\ instance_counters' = r.ic
    /\ fake_state' = fk
    /\ last' = [op |-> op, category |-> category, arg |-> arg, gender |-> gender,
                supplied |-> supplied, ret |-> r.ret]
    /\ ncalls' = ncalls + 1
    /\ first_masked' = RecordFirst(r.md)
    /\ UNCHANGED <<HASH_ALGORITHM, nruns, text, masked_text, restored_text, unmask_stats, pc>>

\* inputs of the identifier generators: well-formed ones and malformed ones
IpnInputs == {<<"1","2","3","4","5","6","7","8","9","0">>, <<"1","2","3","4","5">>}
IpnWide == {<<a, b, "3">> \o m \o <<z>> :
                a \in {"1", "7"}, b \in {"0", "2"}, z \in {"0", "9"},
                m \in {<<"4","5","6","7","8","9">>, <<"0","0","0","0","0","0">>}}
           \cup {<<"1","2","3","4","5","6","7","8","9">>,
                 <<"1","2","3","4","5","6","7","8","9","0","1">>,
                 <<"1","2","3","4","5","a","7","8","9","0">>, << >>}
PassportInputs == {<<"9","8","7","6","5","4","3","2","1">>, <<"9","8","7">>}
PassportWide == {<<a, "8", c>> \o m \o <<z>> :
                    a \in {"9", "0"}, c \in {"7", "1"}, z \in {"1", "5"},
                    m \in {<<"6","5","4","3","2">>, <<"1","1","1","1","1">>}}
                \cup {<<"9","8","7","6","5","4","3","2">>,
                      <<"9","8","7","6","5","4","3","2","1","0">>,
                      <<"9","8","7","x","5","4","3","2","1">>}
MilitaryIdInputs == {<<"LA","LB","-","1","2","3","4","5","6">>, <<"LA","LB","1","2","3">>}
MilitaryIdWide == {p \o sep \o d : p \in {<<"LA","LB">>, <<"LK","LM">>, <<"A","B">>, << >>},
                                  sep \in {<< >>, <<" ">>, <<"-">>},
                                  d \in {<<"1","2","3","4","5","6">>, <<"9","0","0","0","0","9">>}}
                  \cup {<<"LA","LB","-","1","2","3","4","5">>, <<"LA","-","1","2","3","4","5","6">>,
                        <<"la","lb","-","1","2","3","4","5","6">>, <<"1","2","3","4","5","6","7">>}
MilitaryUnitInputs == {<<"LA","1","2","3","4">>, <<"LA","1","2">>}
MilitaryUnitWide == {<<l>> \o d : l \in {"LA", "LB", "A", "V"},
                                 d \in {<<"1","2","3","4">>, <<"0","0","0","0">>, <<"9","8","7","6">>}}
                    \cup {<<"la","1","2","3","4">>, <<"LA","1","2","3">>, <<"LA","1","2","3","4","5">>,
                          <<"LA","LB","2","3","4">>}

-----------------------------------------------------------------------------
(* Number generators *)

RECURSIVE ReplaceDigits(_, _, _)
\* re.sub(r'\d', lambda _: str(random.randint(0, 9)), s): the k-th digit gets the k-th draw
ReplaceDigits(s, seed, k) ==
    IF s = << >> THEN << >>
    ELSE IF IsDigit(Head(s))
         THEN <<DigitChar(randint(seed, k, 0, 9))>> \o ReplaceDigits(Tail(s), seed, k + 1)
         ELSE <<Head(s)>> \o ReplaceDigits(Tail(s), seed, k)

mask_order_number(original, md, ic) ==
    IF Mapped(md, "order_number", original)
    THEN add_to_mapping(md, ic, "order_number", original, Stored(md, "order_number", original))
    ELSE add_to_mapping(md, ic, "order_number", original,
                        ReplaceDigits(original, get_deterministic_seed(original), 1))

mask_order_number_with_letters(original, md, ic) ==
    IF Mapped(md, "order_number_with_letters", original)
    THEN add_to_mapping(md, ic, "order_number_with_letters", original,
                        Stored(md, "order_number_with_letters", original))
    ELSE add_to_mapping(md, ic, "order_number_with_letters", original,
                        ReplaceDigits(original, get_deterministic_seed(original), 1))

EndsWith(s, e) == Len(s) >= Len(e) /\ Suffix(s, Len(e)) = e /\ e # << >>
StartsWith(s, e) == Len(s) >= Len(e) /\ Prefix(s, Len(e)) = e

\* re.search(r'(dsk|p|k)$', original): the suffix matched, or the empty string
BrSuffix(original) ==
    IF EndsWith(original, <<"d", "s", "k">>) THEN <<"d", "s", "k">>
    ELSE IF EndsWith(original, <<"p">>) THEN <<"p">>
    ELSE IF EndsWith(original, <<"k">>) THEN <<"k">>
    ELSE << >>

\* length of the white-space run s starts with
SpaceRun(s) == Least({j \in 0..Len(s) : j = Len(s) \/ ~IsSpace(s[j + 1])})
\* length of the digit run s starts with
DigitRun(s) == Least({j \in 0..Len(s) : j = Len(s) \/ ~IsDigit(s[j + 1])})

RECURSIVE MaskLeadingRuns(_, _, _, _)
\* the loop over re.split(r'(/)', number_part): in every part that starts with a
\* digit the leading digit run is redrawn, the rest of the part is copied
MaskLeadingRuns(s, seed, k, leading) ==
    IF s = << >> THEN << >>
    ELSE IF Head(s) = "/" THEN <<"/">> \o MaskLeadingRuns(Tail(s), seed, k, TRUE)
    ELSE IF leading /\ IsDigit(Head(s))
         THEN <<DigitChar(randint(seed, k, 0, 9))>> \o MaskLeadingRuns(Tail(s), seed, k + 1, TRUE)
         ELSE <<Head(s)>> \o MaskLeadingRuns(Tail(s), seed, k, FALSE)

mask_br_number(original, md, ic) ==
    IF Mapped(md, "br_number", original)
    THEN add_to_mapping(md, ic, "br_number", original, Stored(md, "br_number", original))
    ELSE LET seed   == get_deterministic_seed(original)
             suffix == BrSuffix(original)
             prefix == IF StartsWith(original, <<"#">>)
                       THEN Prefix(original, 1 + SpaceRun(Tail(original))) ELSE << >>
             rest   == SubSeq(original, Len(prefix) + 1, Len(original))
             number_part == IF suffix # << >> THEN Prefix(rest, Max(0, Len(rest) - Len(suffix)))
                            ELSE rest
             masked == prefix \o MaskLeadingRuns(number_part, seed, 1, TRUE) \o suffix
         IN  add_to_mapping(md, ic, "br_number", original, masked)

\* str(n) for 0 <= n <= 999
IntToStr(n) ==
    IF n < 10 THEN <<DigitChar(n)>>
    ELSE IF n < 100 THEN <<DigitChar(n \div 10), DigitChar(n % 10)>>
    ELSE <<DigitChar(n \div 100), DigitChar((n \div 10) % 10), DigitChar(n % 10)>>

\* first line of s: "." of a regular expression does not match a newline
RECURSIVE LineOf(_)
LineOf(s) == IF s = << >> \/ Head(s) = "\n" THEN << >> ELSE <<Head(s)>> \o LineOf(Tail(s))

\* re.match(r'(\d+)\s+(.+)', original): group 2, or << >> when there is no match
BrigadeName(original) ==
    LET d     == DigitRun(original)
        after == SubSeq(original, d + 1, Len(original))
        w     == SpaceRun(after)
        name  == LineOf(SubSeq(after, w + 1, Len(after)))
    IN  IF d = 0 \/ w = 0 THEN << >>
        ELSE IF name # << >> THEN name
        ELSE IF w >= 2 /\ after[w] # "\n" /\ w = Len(after) THEN <<after[w]>>
        ELSE << >>

mask_brigade_number(original, md, ic) ==
    IF Mapped(md, "brigade_number", original)
    THEN add_to_mapping(md, ic, "brigade_number", original, Stored(md, "brigade_number", original))
    ELSE LET brigade_name == BrigadeName(original)
         IN  IF brigade_name = << >> THEN PassThrough(original, md, ic)
             ELSE LET seed   == get_deterministic_seed(original)
                      masked == IntToStr(randint(seed, 1, 1, 160)) \o <<" ">> \o brigade_name
                  IN  add_to_mapping(md, ic, "brigade_number", original, masked)

-----------------------------------------------------------------------------
(* Dates *)

MinYear == 2015
MaxYear == 2035

IsLeap(y) == (y % 4 = 0 /\ y % 100 # 0) \/ y % 400 = 0
DaysInMonth(y, m) ==
    IF m = 2 THEN (IF IsLeap(y) THEN 29 ELSE 28)
    ELSE IF m \in {4, 6, 9, 11} THEN 30 ELSE 31
DaysInYear(y) == IF IsLeap(y) THEN 366 ELSE 365

\* datetime(year, month, day) raises no ValueError
CalendarValid(day, month, year) ==
    month \in 1..12 /\ year \in 1..9999 /\ day >= 1 /\ day <= DaysInMonth(year, month)

is_valid_date(day, month, year) ==
    IF year < MinYear \/ year > MaxYear THEN FALSE ELSE CalendarValid(day, month, year)

RECURSIVE DaysBeforeMonth(_, _)
DaysBeforeMonth(y, m) == IF m = 1 THEN 0 ELSE DaysBeforeMonth(y, m - 1) + DaysInMonth(y, m - 1)
RECURSIVE DaysBeforeYear(_)
\* days from 1 January of the year before MinYear to 1 January of y
DaysBeforeYear(y) == IF y <= MinYear - 1 THEN 0 ELSE DaysBeforeYear(y - 1) + DaysInYear(y - 1)
\* a date as a day number (datetime arithmetic)
ToOrdinal(day, month, year) == DaysBeforeYear(year) + DaysBeforeMonth(year, month) + day - 1

RECURSIVE YearOfOrdinal(_, _)
YearOfOrdinal(n, y) == IF n < DaysInYear(y) THEN [year |-> y, rest |-> n]
                       ELSE YearOfOrdinal(n - DaysInYear(y), y + 1)
RECURSIVE MonthOfOrdinal(_, _, _)
MonthOfOrdinal(n, y, m) == IF n < DaysInMonth(y, m) THEN [month |-> m, rest |-> n]
                           ELSE MonthOfOrdinal(n - DaysInMonth(y, m), y, m + 1)
FromOrdinal(n) ==
    LET yr == YearOfOrdinal(n, MinYear - 1)
        mo == MonthOfOrdinal(yr.rest, yr.year, 1)
    IN  [day |-> mo.rest + 1, month |-> mo.month, year |-> yr.year]

TwoDigits(n) == <<DigitChar((n \div 10) % 10), DigitChar(n % 10)>>
FourDigits(n) == <<DigitChar((n \div 1000) % 10), DigitChar((n \div 100) % 10)>> \o TwoDigits(n)
\* new_date.strftime("%d.%m.%Y")
FormatDate(d) == TwoDigits(d.day) \o <<".">> \o TwoDigits(d.month) \o <<".">> \o FourDigits(d.year)

RECURSIVE ParseInt(_, _)
\* int(s) for a digit string
ParseInt(s, acc) == IF s = << >> THEN acc ELSE ParseInt(Tail(s), acc * 10 + DigitVal(Head(s)))

\* re.match(r'(\d{2})\.(\d{2})\.(\d{4})', original)
DateShape(s) ==
    /\ Len(s) >= 10
    /\ \A i \in {1, 2, 4, 5, 7, 8, 9, 10} : IsDigit(s[i])
    /\ s[3] = "." /\ s[6] = "."
ParseDate(s) == [day |-> ParseInt(SubSeq(s, 1, 2), 0), month |-> ParseInt(SubSeq(s, 4, 5), 0),
                 year |-> ParseInt(SubSeq(s, 7, 10), 0)]

\* date_obj + timedelta(days=random.randint(-30, 30))
MovedDate(original) ==
    LET d == ParseDate(original)
    IN  FromOrdinal(ToOrdinal(d.day, d.month, d.year)
                    + randint(get_deterministic_seed(original), 1, -30, 30))

ShiftedDate_noclamp(original) == MovedDate(original)

\* new_date held to the years MinYear..MaxYear, draw being random.randint(0, 365)
ClampedDate(new_date, draw) ==
    IF new_date.year < MinYear THEN FromOrdinal(ToOrdinal(1, 1, MinYear) + draw)
    ELSE IF new_date.year > MaxYear THEN FromOrdinal(ToOrdinal(31, 12, MaxYear) - draw)
    ELSE new_date

\* the date generated for a valid original: shift by -30..30 days, then clamp
ShiftedDate(original) ==
    ClampedDate(MovedDate(original), randint(get_deterministic_seed(original), 2, 0, 365))

mask_date(original, md, ic) ==
    IF Mapped(md, "date", original)
    THEN add_to_mapping(md, ic, "date", original, Stored(md, "date", original))
    ELSE IF ~DateShape(original) THEN PassThrough(original, md, ic)
    ELSE LET d == ParseDate(original)
         IN  IF ~is_valid_date(d.day, d.month, d.year) THEN PassThrough(original, md, ic)
             ELSE add_to_mapping(md, ic, "date", original, FormatDate(ShiftedDate(original)))
-----------------------------------------------------------------------------
(* Names: word lists, the Faker generator, grammar helpers *)

ABBREVIATION_WHITELIST == {<<"z", "s", "u">>, <<"m", "o", "u">>, <<"v", "s", "u">>, <<"d", "p", "s", "u">>, <<"n", "h", "u">>, <<"d", "s", "n", "s">>, <<"s", "b", "u">>, <<"h", "u", "r">>,
                           <<"t", "c", "k">>, <<"s", "p">>, <<"k", "m", "u">>, <<"o", "t", "c", "k", "s", "p">>}

GOOD_UKRAINIAN_NAMES_MALE ==
    <<<<"a", "n", "d", "r", "i", "j">>, <<"b", "o", "h", "d", "a", "n">>, <<"v", "i", "k", "t", "o", "r">>, <<"v", "o", "l", "o", "d", "y", "m", "y", "r">>, <<"d", "m", "y", "t", "r", "o">>,
      <<"i", "h", "o", "r">>, <<"i", "v", "a", "n">>, <<"m", "a", "k", "s", "y", "m">>, <<"o", "l", "e", "h">>, <<"o", "l", "e", "k", "s", "i", "j">>,
      <<"p", "e", "t", "r", "o">>, <<"s", "e", "r", "h", "i", "j">>, <<"t", "a", "r", "a", "s">>, <<"yu", "r", "i", "j">>, <<"m", "y", "x", "a", "j", "l", "o">>,
      <<"v", "a", "s", "y", "l", "q">>, <<"r", "o", "m", "a", "n">>, <<"a", "r", "t", "e", "m">>, <<"d", "e", "n", "y", "s">>, <<"ye", "v", "h", "e", "n">>,
      <<"k", "o", "s", "t", "ya", "n", "t", "y", "n">>, <<"p", "a", "v", "l", "o">>, <<"s", "t", "a", "n", "i", "s", "l", "a", "v">>, <<"ya", "r", "o", "s", "l", "a", "v">>>>

GOOD_UKRAINIAN_NAMES_FEMALE ==
    <<<<"a", "n", "n", "a">>, <<"v", "i", "k", "t", "o", "r", "i", "ya">>, <<"h", "a", "l", "y", "n", "a">>, <<"d", "a", "r", "i", "ya">>, <<"i", "r", "y", "n", "a">>,
      <<"k", "a", "t", "e", "r", "y", "n", "a">>, <<"m", "a", "r", "i", "ya">>, <<"n", "a", "t", "a", "l", "i", "ya">>, <<"o", "l", "e", "n", "a">>, <<"o", "k", "s", "a", "n", "a">>,
      <<"s", "v", "i", "t", "l", "a", "n", "a">>, <<"t", "e", "t", "ya", "n", "a">>, <<"yu", "l", "i", "ya">>, <<"l", "yu", "d", "m", "y", "l", "a">>, <<"n", "a", "d", "i", "ya">>,
      <<"v", "a", "l", "e", "n", "t", "y", "n", "a">>, <<"l", "a", "r", "y", "s", "a">>, <<"o", "l", "q", "h", "a">>, <<"s", "o", "f", "i", "ya">>, <<"d", "i", "a", "n", "a">>,
      <<"a", "l", "l", "a">>, <<"h", "a", "n", "n", "a">>, <<"l", "yu", "b", "o", "v">>>>

PROBLEMATIC_NAMES == {<<"m", "a", "k", "a", "l", "i", "i", "m">>, <<"s", "e", "r", "u", "b", "a", "i", "j">>, <<"a", "a", "r", "o", "n">>, <<"i", "yi", "l", "i", "ya">>, <<"a", "a", "d", "a", "m">>, <<"i", "i", "s", "u", "s">>, <<"a", "a", "r", "i", "o", "n">>,
                      <<"ye", "ye", "v", "a">>, <<"m", "e", "l", "x", "i", "o", "r">>, <<"v", "a", "l", "t", "a", "s", "a", "r">>, <<"j", "o", "s", "y", "p">>, <<"ye", "v", "s", "t", "a", "x", "i", "j">>, <<"e", "m", "m", "a", "n", "u", "yi", "l">>,
                      <<"r", "a", "f", "a", "yi", "l">>, <<"s", "a", "m", "u", "yi", "l">>, <<"i", "ye", "r", "e", "m", "i", "ya">>}

\* a sample of the uk_UA provider lists the generator fake_uk draws from
FakerLastNames == <<<<"SH", "e", "v", "ch", "e", "n", "k", "o">>, <<"K", "o", "v", "a", "l", "e", "n", "k", "o">>, <<"M", "e", "l", "q", "n", "y", "k">>, <<"H", "u", "k">>, <<"B", "o", "n", "d", "a", "r">>, <<"L", "y", "s", "e", "n", "k", "o">>, <<"T", "k", "a", "ch", "u", "k">>>>
FakerFirstNamesMale == <<<<"H", "r", "y", "h", "o", "r", "i", "j">>, <<"H", "e", "r", "m", "a", "n">>, <<"H", "o", "r", "d", "i", "j">>, <<"N", "a", "z", "a", "r">>, <<"F", "e", "d", "i", "r">>, <<"L", "e", "o", "n", "i", "d">>,
                         <<"I", "v", "a", "n">>, <<"B", "o", "h", "d", "a", "n">>>>
FakerFirstNamesFemale == <<<<"YA", "r", "o", "s", "l", "a", "v", "a">>, <<"YA", "r", "y", "n", "a">>, <<"R", "o", "z", "a", "l", "i", "ya">>, <<"Z", "l", "a", "t", "a">>, <<"A", "n", "n", "a">>, <<"Z", "o", "ya">>>>
FakerMiddleNamesMale == <<<<"I", "v", "a", "n", "o", "v", "y", "ch">>, <<"P", "e", "t", "r", "o", "v", "y", "ch">>, <<"A", "n", "d", "r", "i", "j", "o", "v", "y", "ch">>, <<"B", "o", "h", "d", "a", "n", "o", "v", "y", "ch">>>>
FakerMiddleNamesFemale == <<<<"I", "v", "a", "n", "i", "v", "n", "a">>, <<"P", "e", "t", "r", "i", "v", "n", "a">>, <<"A", "n", "d", "r", "i", "yi", "v", "n", "a">>>>

\* fake_uk.seed_instance(seed)
seed_instance(seed) == [seed |-> seed, k |-> 0]
\* one draw of fake_uk from a provider list: the value and the generator's next state
FakerDraw(fk, list) == [val |-> choice(fk.seed, fk.k + 1, list), fk |-> [fk EXCEPT !.k = @ + 1]]

EndsWithAny(s, E) == \E e \in E : EndsWith(s, e)

RECURSIVE StripRight(_, _)
StripRight(s, C) == IF s # << >> /\ s[Len(s)] \in C THEN StripRight(SubSeq(s, 1, Len(s) - 1), C) ELSE s
RECURSIVE StripLeft(_, _)
StripLeft(s, C) == IF s # << >> /\ Head(s) \in C THEN StripLeft(Tail(s), C) ELSE s
\* str.strip(chars)
Strip(s, C) == StripLeft(StripRight(s, C), C)
Punctuation == {".", ",", "!", "?", ";"}
WhiteSpace == {" ", "\n"}

\* a variant without the lower-case fallback: irregular casing leaves masked as it is
_apply_original_case_keep(original, masked) ==
    IF original = << >> \/ masked = << >> THEN masked
    ELSE IF isupper(original) THEN upper(masked)
    ELSE IF Len(original) > 1 /\ IsUpperChar(original[1]) /\ islower(Tail(original))
         THEN capitalize(masked)
    ELSE IF islower(original) THEN lower(masked)
    ELSE masked

_apply_original_case(original, masked) ==
    IF original = << >> \/ masked = << >> THEN masked
    ELSE IF isupper(original) THEN upper(masked)
    ELSE IF Len(original) > 1 /\ IsUpperChar(original[1]) /\ islower(Tail(original))
         THEN capitalize(masked)
    ELSE lower(masked)

detect_gender_by_patronymic(patronymic) ==
    LET patron_lower == Strip(lower(patronymic), Punctuation)
        male_endings == {<<"o", "v", "y", "ch">>, <<"ye", "v", "y", "ch">>, <<"i", "j", "o", "v", "y", "ch">>, <<"j", "o", "v", "y", "ch">>, <<"o", "v", "y", "ch", "a">>, <<"ye", "v", "y", "ch", "a">>, <<"i", "j", "o", "v", "y", "ch", "a">>,
                         <<"j", "o", "v", "y", "ch", "a">>, <<"o", "v", "y", "ch", "u">>, <<"ye", "v", "y", "ch", "u">>, <<"i", "j", "o", "v", "y", "ch", "u">>, <<"j", "o", "v", "y", "ch", "u">>, <<"o", "v", "y", "ch", "e", "m">>,
                         <<"ye", "v", "y", "ch", "e", "m">>, <<"i", "j", "o", "v", "y", "ch", "e", "m">>, <<"j", "o", "v", "y", "ch", "e", "m">>}
        female_endings == {<<"i", "v", "n", "a">>, <<"yi", "v", "n", "a">>, <<"i", "v", "n", "y">>, <<"yi", "v", "n", "y">>, <<"i", "v", "n", "i">>, <<"yi", "v", "n", "i">>, <<"i", "v", "n", "o", "yu">>, <<"yi", "v", "n", "o", "yu">>}
    IN  IF patronymic = << >> THEN "unknown"
        ELSE IF EndsWithAny(patron_lower, male_endings) THEN "male"
        ELSE IF EndsWithAny(patron_lower, female_endings) THEN "female"
        ELSE "unknown"

detect_name_case_and_gender(name) ==
    LET name_lower == Strip(lower(name), Punctuation)
        common_female_endings == {<<"i", "ya">>, <<"l", "a">>, <<"n", "a">>, <<"r", "a">>, <<"t", "a">>, <<"k", "a">>, <<"h", "a">>, <<"v", "a">>, <<"n", "ya">>,
                                  <<"s", "ya">>, <<"sh", "a">>}
    IN  IF name = << >> THEN <<"nominative", "male">>
        ELSE IF EndsWithAny(name_lower, {<<"o", "m">>, <<"e", "m">>, <<"ye", "m">>, <<"i", "m">>, <<"yi", "m">>})
             THEN <<"instrumental", "male">>
        ELSE IF EndsWithAny(name_lower, {<<"u">>, <<"yu">>})
                /\ ~EndsWithAny(name_lower, {<<"o", "yu">>, <<"ye", "yu">>, <<"i", "ye", "yu">>})
             THEN <<"dative", "male">>
        ELSE IF EndsWithAny(name_lower, {<<"a">>, <<"ya">>}) /\ Len(name) > 4
                /\ ~EndsWithAny(name_lower, common_female_endings)
             THEN <<"genitive", "male">>
        ELSE IF EndsWithAny(name_lower, {<<"i", "ye", "yu">>, <<"o", "yu">>, <<"ye", "yu">>}) THEN <<"instrumental", "female">>
        ELSE IF EndsWithAny(name_lower, {<<"i">>, <<"yi">>}) /\ Len(name) > 3 THEN <<"dative", "female">>
        ELSE IF EndsWithAny(name_lower, {<<"i", "ya">>, <<"a">>, <<"ya">>}) /\ Len(name) > 2
             THEN <<"nominative", "female">>
        ELSE <<"nominative", "male">>

Vowels == {"a", "e", "ye", "y", "i", "yi", "o", "u", "yu", "ya"}

is_easy_to_decline(name, gender) ==
    LET name_lower == lower(name)
    IN  IF name = << >> THEN FALSE
        ELSE IF name_lower \in PROBLEMATIC_NAMES THEN FALSE
        ELSE IF \E i \in 1..(Len(name_lower) - 1) :
                    name_lower[i] \in Vowels /\ name_lower[i + 1] = name_lower[i] THEN FALSE
        ELSE IF Len(name) < 4 \/ Len(name) > 9 THEN FALSE
        ELSE IF gender = "male"
             THEN /\ EndsWithAny(name_lower, {<<"o">>, <<"a">>, <<"j">>, <<"i", "j">>, <<"r">>, <<"n">>, <<"l">>, <<"k">>, <<"m">>,
                                              <<"v">>, <<"t">>})
                  /\ name_lower \notin {<<"i", "l", "l", "ya">>, <<"s", "a", "v", "v", "a">>, <<"l", "u", "k", "a">>, <<"k", "u", "z", "q", "m", "a">>, <<"f", "o", "m", "a">>}
        ELSE IF gender = "female" THEN EndsWithAny(name_lower, {<<"a">>, <<"ya">>, <<"i", "ya">>})
        ELSE FALSE

DropLast(s, n) == SubSeq(s, 1, Len(s) - n)

apply_case_to_name(name0, case, gender) ==
    With([name \in {Strip(name0, WhiteSpace)} |->
        LET endO == EndsWith(name, <<"o">>)
            endA == EndsWith(name, <<"a">>)
            endIJ == EndsWith(name, <<"i", "j">>)
            endJ == EndsWith(name, <<"j">>)
            endIYA == EndsWith(name, <<"i", "ya">>)
            endYA == EndsWith(name, <<"ya">>)
        IN
        With([mstem \in {IF endO \/ endA THEN DropLast(name, 1)
             ELSE IF endIJ THEN DropLast(name, 2) \o <<"i">>
             ELSE IF endJ THEN DropLast(name, 1) ELSE name} |->
        With([fstem \in {IF endIYA THEN DropLast(name, 2)
             ELSE IF endA \/ endYA THEN DropLast(name, 1) ELSE name} |->
        IF name0 = << >> THEN name0
        ELSE IF case = "nominative" THEN name
        ELSE IF gender = "male" THEN
            CASE case = "genitive" ->
                    IF endO \/ endA THEN mstem \o (IF endO THEN <<"a">> ELSE <<"y">>)
                    ELSE IF endIJ \/ endJ THEN mstem \o <<"ya">> ELSE mstem \o <<"a">>
              [] case = "dative" ->
                    IF endO THEN mstem \o <<"u">> ELSE IF endA THEN mstem \o <<"i">>
                    ELSE IF endIJ \/ endJ THEN mstem \o <<"yu">> ELSE mstem \o <<"u">>
              [] case = "instrumental" ->
                    IF endO THEN mstem \o <<"o", "m">> ELSE IF endA THEN mstem \o <<"o", "yu">>
                    ELSE IF endIJ \/ endJ THEN mstem \o <<"ye", "m">> ELSE mstem \o <<"o", "m">>
              [] OTHER -> name
        ELSE IF gender = "female" THEN
            CASE case \in {"genitive", "dative"} -> IF endIYA THEN fstem \o <<"i", "yi">> ELSE fstem \o <<"i">>
              [] case = "instrumental" -> IF endIYA THEN fstem \o <<"i", "ye", "yu">> ELSE fstem \o <<"o", "yu">>
              [] OTHER -> name
        ELSE name])])])
-----------------------------------------------------------------------------
(* Name generators; each returns [ret, md, ic, fk], fk the Faker state after it *)

PassThroughFk(original, md, ic, fk) == [ret |-> original, md |-> md, ic |-> ic, fk |-> fk]
\* original[0] of an empty string: the call ends in an IndexError and returns no value
IndexError == <<"IndexError">>
Raises(exception, md, ic, fk) == [ret |-> exception, md |-> md, ic |-> ic, fk |-> fk]
WithFk(r, fk) == [ret |-> r.ret, md |-> r.md, ic |-> r.ic, fk |-> fk]

mask_surname(original, md, ic, fk) ==
    IF lower(original) \in ABBREVIATION_WHITELIST THEN PassThroughFk(original, md, ic, fk)
    ELSE IF Mapped(md, "surname", original)
    THEN WithFk(add_to_mapping(md, ic, "surname", original, Stored(md, "surname", original)), fk)
    ELSE IF original = << >> THEN Raises(IndexError, md, ic, fk)
    ELSE
    With([seed \in {get_deterministic_seed(original)} |->
    With([draw \in {FakerDraw(seed_instance(seed), FakerLastNames)} |->
        LET is_upper == isupper(original)
            is_capitalize == IsUpperChar(original[1]) /\ islower(Tail(original))
            fake_surname == draw.val
            target_length == randint(seed, 1, Max(3, Len(original) - 1), Min(6, Len(original) + 2))
            middle_len == Min(randint(seed, 1, 2, 7), Len(fake_surname) - 2)
            middle == IF Len(fake_surname) > 4 THEN Slice(fake_surname, 1, 1 + middle_len)
                      ELSE SubSeq(fake_surname, 2, Len(fake_surname) - 1)
        IN  With([raw \in {IF Len(original) < 5
                 THEN (IF Len(fake_surname) > target_length
                       THEN Prefix(fake_surname, target_length) ELSE fake_surname)
                 ELSE Prefix(original, 3) \o middle \o Suffix(original, 2)} |->
                WithFk(add_to_mapping(md, ic, "surname", original,
                                      IF is_upper THEN upper(raw)
                                      ELSE IF is_capitalize THEN capitalize(raw) ELSE raw),
                       draw.fk)])])])

mask_patronymic(patronymic, gender, md, ic, fk) ==
    LET is_upper == isupper(patronymic)
        is_capitalize == Len(patronymic) > 1 /\ IsUpperChar(patronymic[1]) /\ islower(Tail(patronymic))
        patronymic_lower == lower(patronymic)
    IN  IF patronymic = << >> THEN PassThroughFk(patronymic, md, ic, fk)
        ELSE IF Mapped(md, "patronymic", patronymic_lower)
        THEN LET masked == Stored(md, "patronymic", patronymic_lower)
                 nxt == get_next_instance(masked, ic)
             IN  [ret |-> _apply_original_case(patronymic, masked),
                  md  |-> [md EXCEPT !.mappings["patronymic"][patronymic_lower].instances =
                                        Append(@, nxt.ret)],
                  ic  |-> nxt.ic,
                  fk  |-> fk]
        ELSE LET seed == get_deterministic_seed(patronymic_lower)
                 draw == FakerDraw(seed_instance(seed),
                                   IF gender = "male" THEN FakerMiddleNamesMale
                                   ELSE FakerMiddleNamesFemale)
                 fake_patronymic == IF is_upper THEN upper(draw.val)
                                    ELSE IF is_capitalize THEN capitalize(draw.val)
                                    ELSE lower(draw.val)
             IN  WithFk(add_to_mapping(md, ic, "patronymic", patronymic_lower, fake_patronymic),
                        draw.fk)

RECURSIVE FakerNameLoop(_, _, _, _, _)
\* the loop of generate_easy_name over fake_uk.first_name_male()/first_name_female()
FakerNameLoop(gender, first_letter, attempt, max_attempts, fk) ==
    IF attempt >= max_attempts THEN [found |-> FALSE, ret |-> << >>, fk |-> fk]
    ELSE LET draw == FakerDraw(fk, IF gender = "female" THEN FakerFirstNamesFemale
                                   ELSE FakerFirstNamesMale)
         IN  IF LowerChar(draw.val[1]) = first_letter /\ is_easy_to_decline(draw.val, gender)
             THEN [found |-> TRUE, ret |-> draw.val, fk |-> draw.fk]
             ELSE FakerNameLoop(gender, first_letter, attempt + 1, max_attempts, draw.fk)

generate_easy_name(gender, first_letter, seed, max_attempts, fk) ==
    With([whitelist \in {IF gender = "male" THEN GOOD_UKRAINIAN_NAMES_MALE ELSE GOOD_UKRAINIAN_NAMES_FEMALE} |->
    With([available \in {SelectSeq(whitelist, LAMBDA n : LowerChar(n[1]) = LowerChar(first_letter))} |->
        IF available # << >> THEN [ret |-> capitalize(choice(seed, 1, available)), fk |-> fk]
        ELSE With([loop \in {FakerNameLoop(gender, first_letter, 0, max_attempts, fk)} |->
                 IF loop.found THEN [ret |-> loop.ret, fk |-> loop.fk]
                 ELSE [ret |-> capitalize(choice(seed, 1, whitelist)), fk |-> loop.fk]])])])

\* str(attempts) for the retry counter 0..9
AttemptStr(attempts) == <<DigitChar(attempts)>>

RECURSIVE NameRetry(_, _, _, _, _, _)
\* the while loop of mask_name: up to 10 further generations while the result equals the original
NameRetry(original, case, gender, masked, attempts, fk) ==
    IF lower(masked) = lower(original) /\ attempts < 10
    THEN With([gen \in {generate_easy_name(gender, LowerChar(original[1]),
                                 get_deterministic_seed(original \o AttemptStr(attempts)), 50, fk)} |->
                  NameRetry(original, case, gender, apply_case_to_name(gen.ret, case, gender),
                            attempts + 1, gen.fk)])
    ELSE [masked |-> masked, attempts |-> attempts, fk |-> fk]

\* the value mask_name generates for an original it has not recorded, before casing
GenerateName(original, gender_hint, patronymic_hint, fk) ==
    With([cg \in {detect_name_case_and_gender(original)} |->
    With([gender_from_hint \in {IF patronymic_hint # << >> THEN detect_gender_by_patronymic(patronymic_hint)
         ELSE "unknown"} |->
        LET case == cg[1]
            gender_from_name == cg[2]
            hinted == IF gender_hint # "" THEN gender_hint
                      ELSE IF patronymic_hint # << >>
                      THEN (IF gender_from_hint = "unknown"
                            THEN gender_from_name ELSE gender_from_hint)
                      ELSE gender_from_name
            gender == IF hinted = "unknown" THEN "male" ELSE hinted
            seed == get_deterministic_seed(original)
        IN  With([gen \in {generate_easy_name(gender, LowerChar(original[1]), seed, 50, fk)} |->
                NameRetry(original, case, gender, apply_case_to_name(gen.ret, case, gender),
                          0, gen.fk)])])])

mask_name(original, gender_hint, patronymic_hint, md, ic, fk) ==
    LET is_upper == isupper(original)
        is_capitalize == original # << >> /\ IsUpperChar(original[1])
                         /\ (Len(original) = 1 \/ islower(Tail(original)))
        is_lower == islower(original)
        hit == Mapped(md, "name", original)
    IN  IF original = << >> THEN Raises(IndexError, md, ic, fk)
        ELSE
        With([gen \in {IF hit THEN [masked |-> Stored(md, "name", original), attempts |-> 0, fk |-> fk]
             ELSE GenerateName(original, gender_hint, patronymic_hint, fk)} |->
        With([masked \in {IF is_upper THEN upper(gen.masked)
             ELSE IF is_capitalize THEN capitalize(gen.masked)
             ELSE IF is_lower THEN lower(gen.masked) ELSE gen.masked} |->
            WithFk(add_to_mapping(md, ic, "name", original, masked), gen.fk)])])
-----------------------------------------------------------------------------
(* Ranks *)

\* the alternatives of RANK_PATTERNS, in order; "\d+" of the naval pattern is 1, 2 or 3
ARMY_PATTERN ==
    <<<<"r", "e", "k", "r", "u", "t">>,
      <<"r", "ya", "d", "o", "v", "y", "j">>,
      <<"s", "o", "l", "d", "a", "t">>,
      <<"s", "t", "a", "r", "sh", "y", "j", " ", "s", "o", "l", "d", "a", "t">>,
      <<"e", "f", "r", "e", "j", "t", "o", "r">>,
      <<"m", "o", "l", "o", "d", "sh", "y", "j", " ", "s", "e", "r", "zh", "a", "n", "t">>,
      <<"s", "e", "r", "zh", "a", "n", "t">>,
      <<"s", "t", "a", "r", "sh", "y", "j", " ", "s", "e", "r", "zh", "a", "n", "t">>,
      <<"h", "o", "l", "o", "v", "n", "y", "j", " ", "s", "e", "r", "zh", "a", "n", "t">>,
      <<"sh", "t", "a", "b", "s", "-", "s", "e", "r", "zh", "a", "n", "t">>,
      <<"m", "a", "j", "s", "t", "e", "r", "-", "s", "e", "r", "zh", "a", "n", "t">>,
      <<"s", "t", "a", "r", "sh", "y", "j", " ", "m", "a", "j", "s", "t", "e", "r", "-", "s", "e", "r", "zh", "a", "n", "t">>,
      <<"h", "o", "l", "o", "v", "n", "y", "j", " ", "m", "a", "j", "s", "t", "e", "r", "-", "s", "e", "r", "zh", "a", "n", "t">>,
      <<"p", "r", "a", "p", "o", "r", "sch", "y", "k">>,
      <<"s", "t", "a", "r", "sh", "y", "j", " ", "p", "r", "a", "p", "o", "r", "sch", "y", "k">>,
      <<"m", "o", "l", "o", "d", "sh", "y", "j", " ", "l", "e", "j", "t", "e", "n", "a", "n", "t">>,
      <<"l", "e", "j", "t", "e", "n", "a", "n", "t">>,
      <<"s", "t", "a", "r", "sh", "y", "j", " ", "l", "e", "j", "t", "e", "n", "a", "n", "t">>,
      <<"k", "a", "p", "i", "t", "a", "n">>,
      <<"m", "a", "j", "o", "r">>,
      <<"p", "i", "d", "p", "o", "l", "k", "o", "v", "n", "y", "k">>,
      <<"p", "o", "l", "k", "o", "v", "n", "y", "k">>,
      <<"b", "r", "y", "h", "a", "d", "n", "y", "j", " ", "h", "e", "n", "e", "r", "a", "l">>,
      <<"h", "e", "n", "e", "r", "a", "l", "-", "m", "a", "j", "o", "r">>,
      <<"h", "e", "n", "e", "r", "a", "l", "-", "l", "e", "j", "t", "e", "n", "a", "n", "t">>,
      <<"h", "e", "n", "e", "r", "a", "l">>>>

NAVAL_PATTERN ==
    <<<<"m", "a", "t", "r", "o", "s">>,
      <<"m", "o", "r", "ya", "k">>,
      <<"s", "t", "a", "r", "sh", "y", "j", " ", "m", "a", "t", "r", "o", "s">>,
      <<"s", "t", "a", "r", "sh", "y", "j", " ", "m", "o", "r", "ya", "k">>,
      <<"m", "o", "l", "o", "d", "sh", "y", "j", " ", "s", "e", "r", "zh", "a", "n", "t">>,
      <<"s", "e", "r", "zh", "a", "n", "t">>,
      <<"s", "t", "a", "r", "sh", "y", "j", " ", "s", "e", "r", "zh", "a", "n", "t">>,
      <<"h", "o", "l", "o", "v", "n", "y", "j", " ", "s", "e", "r", "zh", "a", "n", "t">>,
      <<"sh", "t", "a", "b", "s", "-", "s", "e", "r", "zh", "a", "n", "t">>,
      <<"m", "a", "j", "s", "t", "e", "r", "-", "s", "e", "r", "zh", "a", "n", "t">>,
      <<"s", "t", "a", "r", "sh", "y", "j", " ", "m", "a", "j", "s", "t", "e", "r", "-", "s", "e", "r", "zh", "a", "n", "t">>,
      <<"h", "o", "l", "o", "v", "n", "y", "j", " ", "m", "a", "j", "s", "t", "e", "r", "-", "s", "e", "r", "zh", "a", "n", "t">>,
      <<"m", "o", "l", "o", "d", "sh", "y", "j", " ", "l", "e", "j", "t", "e", "n", "a", "n", "t">>,
      <<"l", "e", "j", "t", "e", "n", "a", "n", "t">>,
      <<"s", "t", "a", "r", "sh", "y", "j", " ", "l", "e", "j", "t", "e", "n", "a", "n", "t">>,
      <<"k", "a", "p", "i", "t", "a", "n", "-", "l", "e", "j", "t", "e", "n", "a", "n", "t">>,
      <<"k", "a", "p", "i", "t", "a", "n", " ", "1", "-", "h", "o", " ", "r", "a", "n", "h", "u">>,
      <<"k", "a", "p", "i", "t", "a", "n", " ", "2", "-", "h", "o", " ", "r", "a", "n", "h", "u">>,
      <<"k", "a", "p", "i", "t", "a", "n", " ", "3", "-", "h", "o", " ", "r", "a", "n", "h", "u">>,
      <<"k", "o", "n", "t", "r", "-", "a", "d", "m", "i", "r", "a", "l">>,
      <<"v", "i", "c", "e", "-", "a", "d", "m", "i", "r", "a", "l">>,
      <<"a", "d", "m", "i", "r", "a", "l">>>>

LEGAL_PATTERN ==
    <<<<"m", "o", "l", "o", "d", "sh", "y", "j", " ", "s", "e", "r", "zh", "a", "n", "t", " ", "yu", "s", "t", "y", "c", "i", "yi">>,
      <<"s", "e", "r", "zh", "a", "n", "t", " ", "yu", "s", "t", "y", "c", "i", "yi">>,
      <<"s", "t", "a", "r", "sh", "y", "j", " ", "s", "e", "r", "zh", "a", "n", "t", " ", "yu", "s", "t", "y", "c", "i", "yi">>,
      <<"h", "o", "l", "o", "v", "n", "y", "j", " ", "s", "e", "r", "zh", "a", "n", "t", " ", "yu", "s", "t", "y", "c", "i", "yi">>,
      <<"sh", "t", "a", "b", "s", "-", "s", "e", "r", "zh", "a", "n", "t", " ", "yu", "s", "t", "y", "c", "i", "yi">>,
      <<"m", "o", "l", "o", "d", "sh", "y", "j", " ", "l", "e", "j", "t", "e", "n", "a", "n", "t", " ", "yu", "s", "t", "y", "c", "i", "yi">>,
      <<"l", "e", "j", "t", "e", "n", "a", "n", "t", " ", "yu", "s", "t", "y", "c", "i", "yi">>,
      <<"s", "t", "a", "r", "sh", "y", "j", " ", "l", "e", "j", "t", "e", "n", "a", "n", "t", " ", "yu", "s", "t", "y", "c", "i", "yi">>,
      <<"k", "a", "p", "i", "t", "a", "n", " ", "yu", "s", "t", "y", "c", "i", "yi">>,
      <<"m", "a", "j", "o", "r", " ", "yu", "s", "t", "y", "c", "i", "yi">>,
      <<"p", "i", "d", "p", "o", "l", "k", "o", "v", "n", "y", "k", " ", "yu", "s", "t", "y", "c", "i", "yi">>,
      <<"p", "o", "l", "k", "o", "v", "n", "y", "k", " ", "yu", "s", "t", "y", "c", "i", "yi">>,
      <<"h", "e", "n", "e", "r", "a", "l", "-", "m", "a", "j", "o", "r", " ", "yu", "s", "t", "y", "c", "i", "yi">>,
      <<"h", "e", "n", "e", "r", "a", "l", "-", "l", "e", "j", "t", "e", "n", "a", "n", "t", " ", "yu", "s", "t", "y", "c", "i", "yi">>>>

MEDICAL_PATTERN ==
    <<<<"m", "o", "l", "o", "d", "sh", "y", "j", " ", "s", "e", "r", "zh", "a", "n", "t", " ", "m", "e", "d", "y", "ch", "n", "o", "yi", " ", "s", "l", "u", "zh", "b", "y">>,
      <<"s", "e", "r", "zh", "a", "n", "t", " ", "m", "e", "d", "y", "ch", "n", "o", "yi", " ", "s", "l", "u", "zh", "b", "y">>,
      <<"s", "t", "a", "r", "sh", "y", "j", " ", "s", "e", "r", "zh", "a", "n", "t", " ", "m", "e", "d", "y", "ch", "n", "o", "yi", " ", "s", "l", "u", "zh", "b", "y">>,
      <<"h", "o", "l", "o", "v", "n", "y", "j", " ", "s", "e", "r", "zh", "a", "n", "t", " ", "m", "e", "d", "y", "ch", "n", "o", "yi", " ", "s", "l", "u", "zh", "b", "y">>,
      <<"sh", "t", "a", "b", "s", "-", "s", "e", "r", "zh", "a", "n", "t", " ", "m", "e", "d", "y", "ch", "n", "o", "yi", " ", "s", "l", "u", "zh", "b", "y">>,
      <<"m", "o", "l", "o", "d", "sh", "y", "j", " ", "l", "e", "j", "t", "e", "n", "a", "n", "t", " ", "m", "e", "d", "y", "ch", "n", "o", "yi", " ", "s", "l", "u", "zh", "b", "y">>,
      <<"l", "e", "j", "t", "e", "n", "a", "n", "t", " ", "m", "e", "d", "y", "ch", "n", "o", "yi", " ", "s", "l", "u", "zh", "b", "y">>,
      <<"s", "t", "a", "r", "sh", "y", "j", " ", "l", "e", "j", "t", "e", "n", "a", "n", "t", " ", "m", "e", "d", "y", "ch", "n", "o", "yi", " ", "s", "l", "u", "zh", "b", "y">>,
      <<"k", "a", "p", "i", "t", "a", "n", " ", "m", "e", "d", "y", "ch", "n", "o", "yi", " ", "s", "l", "u", "zh", "b", "y">>,
      <<"m", "a", "j", "o", "r", " ", "m", "e", "d", "y", "ch", "n", "o", "yi", " ", "s", "l", "u", "zh", "b", "y">>,
      <<"p", "i", "d", "p", "o", "l", "k", "o", "v", "n", "y", "k", " ", "m", "e", "d", "y", "ch", "n", "o", "yi", " ", "s", "l", "u", "zh", "b", "y">>,
      <<"p", "o", "l", "k", "o", "v", "n", "y", "k", " ", "m", "e", "d", "y", "ch", "n", "o", "yi", " ", "s", "l", "u", "zh", "b", "y">>,
      <<"h", "e", "n", "e", "r", "a", "l", "-", "m", "a", "j", "o", "r", " ", "m", "e", "d", "y", "ch", "n", "o", "yi", " ", "s", "l", "u", "zh", "b", "y">>,
      <<"h", "e", "n", "e", "r", "a", "l", "-", "l", "e", "j", "t", "e", "n", "a", "n", "t", " ", "m", "e", "d", "y", "ch", "n", "o", "yi", " ", "s", "l", "u", "zh", "b", "y">>>>

RankCategories == <<"army", "naval", "legal", "medical">>
RANK_PATTERNS(category) ==
    CASE category = "army" -> ARMY_PATTERN [] category = "naval" -> NAVAL_PATTERN
      [] category = "legal" -> LEGAL_PATTERN [] category = "medical" -> MEDICAL_PATTERN

\* rank_data: the ordered hierarchies of base rank names, one per service category
ARMY_RANKS == ARMY_PATTERN
NAVAL_RANKS == NAVAL_PATTERN
LEGAL_RANKS == LEGAL_PATTERN
MEDICAL_RANKS == MEDICAL_PATTERN

\* rank_data: case forms of the base ranks that decline
RANK_DECLENSIONS ==
    (<<"s", "o", "l", "d", "a", "t">> :> [nominative |-> <<"s", "o", "l", "d", "a", "t">>, genitive |-> <<"s", "o", "l", "d", "a", "t", "a">>, dative |-> <<"s", "o", "l", "d", "a", "t", "u">>,
                   instrumental |-> <<"s", "o", "l", "d", "a", "t", "o", "m">>])
    @@ (<<"k", "a", "p", "i", "t", "a", "n">> :> [nominative |-> <<"k", "a", "p", "i", "t", "a", "n">>, genitive |-> <<"k", "a", "p", "i", "t", "a", "n", "a">>, dative |-> <<"k", "a", "p", "i", "t", "a", "n", "u">>,
                      instrumental |-> <<"k", "a", "p", "i", "t", "a", "n", "o", "m">>])
    @@ (<<"s", "t", "a", "r", "sh", "y", "j", " ", "s", "o", "l", "d", "a", "t">> :> [nominative |-> <<"s", "t", "a", "r", "sh", "y", "j", " ", "s", "o", "l", "d", "a", "t">>, genitive |-> <<"s", "t", "a", "r", "sh", "o", "h", "o", " ", "s", "o", "l", "d", "a", "t", "a">>,
                             dative |-> <<"s", "t", "a", "r", "sh", "o", "m", "u", " ", "s", "o", "l", "d", "a", "t", "u">>,
                             instrumental |-> <<"s", "t", "a", "r", "sh", "y", "m", " ", "s", "o", "l", "d", "a", "t", "o", "m">>])
    @@ (<<"m", "a", "t", "r", "o", "s">> :> [nominative |-> <<"m", "a", "t", "r", "o", "s">>, genitive |-> <<"m", "a", "t", "r", "o", "s", "a">>, dative |-> <<"m", "a", "t", "r", "o", "s", "u">>,
                     instrumental |-> <<"m", "a", "t", "r", "o", "s", "o", "m">>])
    @@ (<<"m", "a", "j", "o", "r">> :> [nominative |-> <<"m", "a", "j", "o", "r">>, genitive |-> <<"m", "a", "j", "o", "r", "a">>, dative |-> <<"m", "a", "j", "o", "r", "u">>,
                    instrumental |-> <<"m", "a", "j", "o", "r", "o", "m">>])
    @@ (<<"h", "e", "n", "e", "r", "a", "l">> :> [nominative |-> <<"h", "e", "n", "e", "r", "a", "l">>, genitive |-> <<"h", "e", "n", "e", "r", "a", "l", "a">>, dative |-> <<"h", "e", "n", "e", "r", "a", "l", "u">>,
                      instrumental |-> <<"h", "e", "n", "e", "r", "a", "l", "o", "m">>])

\* rank_data: male base rank -> female base rank
RANK_FEMININE_MAP ==
    (<<"s", "o", "l", "d", "a", "t">> :> <<"s", "o", "l", "d", "a", "t", "k", "a">>) @@ (<<"k", "a", "p", "i", "t", "a", "n">> :> <<"k", "a", "p", "i", "t", "a", "n", "k", "a">>)
    @@ (<<"s", "t", "a", "r", "sh", "y", "j", " ", "s", "o", "l", "d", "a", "t">> :> <<"s", "t", "a", "r", "sh", "a", " ", "s", "o", "l", "d", "a", "t", "k", "a">>)

\* rank_data: case forms of the female base ranks
RANK_DECLENSIONS_FEMALE ==
    (<<"s", "o", "l", "d", "a", "t", "k", "a">> :> [nominative |-> <<"s", "o", "l", "d", "a", "t", "k", "a">>, genitive |-> <<"s", "o", "l", "d", "a", "t", "k", "y">>, dative |-> <<"s", "o", "l", "d", "a", "t", "c", "i">>,
                     instrumental |-> <<"s", "o", "l", "d", "a", "t", "k", "o", "yu">>])
    @@ (<<"k", "a", "p", "i", "t", "a", "n", "k", "a">> :> [nominative |-> <<"k", "a", "p", "i", "t", "a", "n", "k", "a">>, genitive |-> <<"k", "a", "p", "i", "t", "a", "n", "k", "y">>,
                        dative |-> <<"k", "a", "p", "i", "t", "a", "n", "c", "i">>, instrumental |-> <<"k", "a", "p", "i", "t", "a", "n", "k", "o", "yu">>])
    @@ (<<"s", "t", "a", "r", "sh", "a", " ", "s", "o", "l", "d", "a", "t", "k", "a">> :> [nominative |-> <<"s", "t", "a", "r", "sh", "a", " ", "s", "o", "l", "d", "a", "t", "k", "a">>, genitive |-> <<"s", "t", "a", "r", "sh", "o", "yi", " ", "s", "o", "l", "d", "a", "t", "k", "y">>,
                              dative |-> <<"s", "t", "a", "r", "sh", "i", "j", " ", "s", "o", "l", "d", "a", "t", "c", "i">>,
                              instrumental |-> <<"s", "t", "a", "r", "sh", "o", "yu", " ", "s", "o", "l", "d", "a", "t", "k", "o", "yu">>])

GrammaticalCases == {"nominative", "genitive", "dative", "instrumental"}
AllBaseRanks == Range(ARMY_RANKS) \cup Range(NAVAL_RANKS) \cup Range(LEGAL_RANKS)
                \cup Range(MEDICAL_RANKS)

\* rank_data: reverse index, rank form -> <<male base, case, gender>>
RANK_TO_NOMINATIVE ==
    LET declined == {<<RANK_DECLENSIONS[b][c], b, c, "male">> :
                        b \in DOMAIN RANK_DECLENSIONS, c \in GrammaticalCases \ {"nominative"}}
        female == {<<RANK_DECLENSIONS_FEMALE[RANK_FEMININE_MAP[b]][c], b, c, "female">> :
                        b \in DOMAIN RANK_FEMININE_MAP, c \in GrammaticalCases}
        forms == AllBaseRanks \cup {d[1] : d \in declined \cup female}
    IN  [f \in forms |->
            IF f \in AllBaseRanks THEN <<f, "nominative", "male">>
            ELSE LET d == CHOOSE d \in declined \cup female : d[1] = f IN <<d[2], d[3], d[4]>>]

\* a before b: the longer string first, strings of one length in the order of their characters
LongerFirst(a, b) ==
    \/ Len(a) > Len(b)
    \/ /\ Len(a) = Len(b)
       /\ \E i \in 1..Len(a) :
             /\ \A j \in 1..(i - 1) : a[j] = b[j]
             /\ CharCode(a[i]) < CharCode(b[i])

\* sorted(S, key=len, reverse=True)
SortedByLength(S) ==
    LET place == [x \in S |-> Cardinality({y \in S : LongerFirst(y, x)})]
    IN  [r \in 1..Cardinality(S) |-> CHOOSE x \in S : place[x] = r - 1]

\* rank_data: the keys of RANK_TO_NOMINATIVE, longest first
ALL_RANK_FORMS == SortedByLength(DOMAIN RANK_TO_NOMINATIVE)
\* rank_data: every rank form of every category, longest first
RANKS_LIST == ALL_RANK_FORMS

NoRankInfo == <<"", "", "">>

get_rank_info(rank_form) == Get(RANK_TO_NOMINATIVE, lower(rank_form), NoRankInfo)

get_rank_in_case(nominative_rank, target_case) ==
    IF nominative_rank \notin DOMAIN RANK_DECLENSIONS THEN nominative_rank
    ELSE RANK_DECLENSIONS[nominative_rank][target_case]

\* alternative alt of a pattern \b(...)\b matches text at position i
AltMatchesAt(txt, i, alt) ==
    /\ i + Len(alt) - 1 <= Len(txt)
    /\ SubSeq(txt, i, i + Len(alt) - 1) = alt
    /\ (i = 1 \/ ~IsWordChar(txt[IF i = 1 THEN 1 ELSE i - 1]))
    /\ (i + Len(alt) > Len(txt) \/ ~IsWordChar(txt[IF i + Len(alt) > Len(txt) THEN 1 ELSE i + Len(alt)]))

RECURSIVE RankSearchFrom(_, _, _)
\* re.search(pattern, text): leftmost position, there the first alternative that matches
RankSearchFrom(pattern, txt, i) ==
    IF i > Len(txt) THEN << >>
    ELSE LET hits == {j \in DOMAIN pattern : AltMatchesAt(txt, i, pattern[j])}
         IN  IF hits # {} THEN pattern[CHOOSE j \in hits : \A h \in hits : j <= h]
             ELSE RankSearchFrom(pattern, txt, i + 1)

RECURSIVE RankCategoryFrom(_, _)
RankCategoryFrom(text_lower, n) ==
    IF n > Len(RankCategories) THEN [category |-> "", matched |-> << >>]
    ELSE LET m == RankSearchFrom(RANK_PATTERNS(RankCategories[n]), text_lower, 1)
         IN  IF m # << >> THEN [category |-> RankCategories[n], matched |-> m]
             ELSE RankCategoryFrom(text_lower, n + 1)

get_rank_category_and_match(txt) == RankCategoryFrom(lower(txt), 1)

Hierarchy(category_name) ==
    CASE category_name = "army" -> ARMY_RANKS [] category_name = "naval" -> NAVAL_RANKS
      [] category_name = "legal" -> LEGAL_RANKS [] category_name = "medical" -> MEDICAL_RANKS

RankShifts == <<-2, -1, 1, 2>>
\* hierarchy[max(0, min(len(hierarchy) - 1, idx + shift))], idx counted from 1 here
ShiftedRank(hierarchy, idx, shift) == hierarchy[Max(1, Min(Len(hierarchy), idx + shift))]

RECURSIVE RankRetry(_, _, _, _, _, _)
\* the while loop of mask_rank: up to 10 further draws while the result equals the original
RankRetry(hierarchy, idx, original_key, masked, attempts, seed) ==
    IF lower(masked) = original_key /\ attempts < 10
    THEN RankRetry(hierarchy, idx, original_key,
                   ShiftedRank(hierarchy, idx, choice(seed, attempts + 2, RankShifts)),
                   attempts + 1, seed)
    ELSE [masked |-> masked, attempts |-> attempts]

\* original.split(): more than one word and every word starts with an upper-case letter
AllWordsTitle(original) ==
    LET starts == {i \in DOMAIN original :
                      ~IsSpace(original[i]) /\ (i = 1 \/ IsSpace(original[IF i = 1 THEN 1 ELSE i - 1]))}
    IN  Cardinality(starts) > 1 /\ \A i \in starts : IsUpperChar(original[i])

\* the casing mask_rank applies to a freshly recorded value (PRESERVE_CASE is True)
RankCase(original, final_masked) ==
    IF Contains(original, "-") /\ istitle(original) THEN title(final_masked)
    ELSE IF AllWordsTitle(original) THEN title(final_masked)
    ELSE _apply_original_case(original, final_masked)

\* the base rank mask_rank generates for a key the patterns recognise
GenerateRank(original_key) ==
    With([cm \in {get_rank_category_and_match(original_key)} |->
    With([hierarchy \in {Hierarchy(cm.category)} |->
    With([idx \in {CHOOSE i \in DOMAIN hierarchy : lower(hierarchy[i]) = lower(cm.matched)} |->
    With([seed \in {get_deterministic_seed(original_key)} |->
        RankRetry(hierarchy, idx, original_key,
                  ShiftedRank(hierarchy, idx, choice(seed, 1, RankShifts)), 0, seed)])])])])

mask_rank(original, md, ic) ==
    With([original_key \in {lower(original)} |->
        LET detected_case == get_rank_info(original_key)[2]
            is_someone_else_mask ==
                \E other \in DOMAIN md.mappings["rank"] :
                    lower(md.mappings["rank"][other].masked_as) = original_key
                    /\ other # original_key
        IN  IF Mapped(md, "rank", original_key) /\ ~is_someone_else_mask
            THEN With([r \in {add_to_mapping(md, ic, "rank", original_key,
                                     Stored(md, "rank", original_key))} |-> [r EXCEPT !.ret = _apply_original_case(original, r.ret)]])
            ELSE IF get_rank_category_and_match(original_key).matched = << >>
            THEN PassThrough(original, md, ic)
            ELSE
            With([case \in {detected_case} |->
            With([generated \in {GenerateRank(original_key).masked} |->
            With([r \in {add_to_mapping(md, ic, "rank", original_key,
                                IF case # "" /\ case # "nominative"
                                THEN get_rank_in_case(generated, case) ELSE generated)} |-> [r EXCEPT !.ret = RankCase(original, r.ret)]])])])])
-----------------------------------------------------------------------------
(* Inputs and call actions of the generators *)

OrderInputs == {<<"#", " ", "1", "2", "3">>}
OrderWide == {<<"#", " ", "1", "2", "3">>, <<"#", "1", "2", "3">>, <<"#", "4", "5", "/", "6">>, <<"#", " ", "7", "/", "8", "9", "/", "1", "0">>, <<"#", "1">>, <<"1", "2", "3">>, <<"a", "b", "v">>}
OrderLettersInputs == {<<"#", " ", "1", "2", "/", "o", "k", "p">>}
OrderLettersWide == {<<"#", " ", "1", "2", "/", "o", "k", "p">>, <<"#", "1", "2", "/", "3", "4", "-", "5", "6", "d", "s", "k">>, <<"#", " ", "5", "/", "v", "7">>, <<"#", " ", "9", "-", "k", "p">>}
BrInputs == {<<"B", "R", "-", "1", "2", "3">>, <<"#", "4", "5", "/", "6", "d", "s", "k">>}
BrWide == {<<"B", "R", "-", "1", "2", "3">>, <<"B", "R", " ", "7", "7", "p">>, <<"#", "B", "R", "-", "1", "2", "3">>, <<"#", "4", "5", "/", "6", "d", "s", "k">>, <<"#", " ", "1", "2", "/", "3", "4", "-", "5", "6", "d", "s", "k">>, <<"1", "2", "3", "/", "4", "5", "/", "6", "7", "p">>,
           <<"4", "5", "k">>, <<"#", " ", "1", "2">>, <<"7">>}
BrigadeInputs == {<<"1", "2", " ", "b", "r", "y", "h", "a", "d", "y">>}
BrigadeWide == {<<"1", "2", " ", "b", "r", "y", "h", "a", "d", "y">>, <<"5", " ", "o", "m", "b", "r">>, <<"5", " ", " ", "o", "m", "b", "r">>, <<"1", "0", "1", " ", "o", "sh", "b", "r">>, <<"9", "3", " ", "t", "b", "r">>, <<"7", " ", "d", "sh", "b">>,
                <<"1", "2", "b", "r", "y", "h", "a", "d", "y">>, <<"b", "r", "y", "h", "a", "d", "y">>}
DateInputs == {<<"1", "5", ".", "0", "3", ".", "2", "0", "2", "4">>, <<"3", "1", ".", "0", "2", ".", "2", "0", "2", "4">>}
DateDays == {<<"0", "1">>, <<"1", "5">>, <<"2", "9">>, <<"3", "1">>}
DateMonths == {<<"0", "1">>, <<"0", "2">>, <<"1", "2">>, <<"1", "3">>}
DateYears == {<<"2", "0", "1", "4">>, <<"2", "0", "1", "5">>, <<"2", "0", "2", "4">>, <<"2", "0", "3", "5">>, <<"2", "0", "3", "6">>}
DateWide == {d \o <<".">> \o m \o <<".">> \o y : d \in DateDays, m \in DateMonths, y \in DateYears}
            \cup {<<"1", ".", "2", ".", "2", "0", "2", "4">>, <<"1", "5", "-", "0", "3", "-", "2", "0", "2", "4">>, <<"1", "5", ".", "0", "3", ".", "2", "4">>, <<"0", "0", ".", "0", "1", ".", "2", "0", "2", "4">>}
SurnameInputs == {<<"SH", "e", "v", "ch", "e", "n", "k", "o">>, <<"H", "u", "k">>}
SurnameWide == {<<"SH", "e", "v", "ch", "e", "n", "k", "o">>, <<"SH", "E", "V", "CH", "E", "N", "K", "O">>, <<"sh", "e", "v", "ch", "e", "n", "k", "o">>, <<"K", "o", "v", "a", "l", "e", "n", "k", "o">>, <<"M", "e", "l", "q", "n", "y", "k">>, <<"H", "u", "k">>, <<"H", "U", "K">>,
                <<"B", "o", "n", "d", "a", "r">>, <<"L", "y", "s", "e", "n", "k", "o">>, <<"T", "k", "a", "ch", "u", "k">>, <<"SH", "e", "v">>, <<"SH", "e", "v", "ch">>, <<"K", "o", "v", "a">>, <<"K", "o", "v">>, <<"M", "e", "l">>,
                <<"M", "e", "l", "q">>, <<"B", "o", "n">>, <<"B", "o", "n", "d">>, <<"L", "y", "s">>, <<"L", "y", "s", "e">>, <<"T", "k", "a">>, <<"T", "k", "a", "ch">>, <<"L", "i">>, <<"Z", "S", "U">>,
                <<"P", "e", "t", "r", "e", "n", "k", "o">>, <<"S", "y", "d", "o", "r", "e", "n", "k", "o">>, <<"I", "v", "a", "n", "e", "n", "k", "o">>, <<"SH", "e", "v", "e", "v", "ch", "k", "o">>, <<"M", "e", "l", "o", "v", "a", "y", "k">>, <<"B", "o", "n", "k", "a", "ch", "a", "r">>}
NameInputs == {<<<<"I", "v", "a", "n">>, "">>, <<<<"B", "o", "h", "d", "a", "n">>, "">>, <<<<"H", "r", "y", "h", "o", "r", "i", "j">>, "">>}
NameWide == {<<n, g>> : n \in {<<"I", "v", "a", "n">>, <<"I", "V", "A", "N">>, <<"i", "v", "a", "n">>, <<"I", "v", "a", "n", "u">>, <<"I", "v", "a", "n", "o", "m">>, <<"B", "o", "h", "d", "a", "n">>, <<"B", "o", "h", "d", "a", "n", "a">>,
                               <<"H", "r", "y", "h", "o", "r", "i", "j">>, <<"H", "e", "r", "m", "a", "n">>, <<"N", "a", "z", "a", "r">>, <<"F", "e", "d", "i", "r">>, <<"O", "l", "q", "h", "a">>, <<"O", "l", "e", "n", "y">>,
                               <<"M", "a", "r", "i", "ye", "yu">>, <<"YA", "r", "y", "n", "a">>, <<"Z", "o", "ya">>, <<"A", "n", "d", "r", "i", "j">>, <<"YU", "r", "i", "ya">>},
                      g \in {"", "male", "female"}}
NameHints == {<< >>, <<"P", "e", "t", "r", "i", "v", "n", "a">>}
PatronymicInputs == {<<<<"I", "v", "a", "n", "o", "v", "y", "ch">>, "male">>, <<<<"I", "V", "A", "N", "O", "V", "Y", "CH">>, "male">>, <<<<"P", "e", "t", "r", "i", "v", "n", "a">>, "female">>}
RankInputs == {<<"k", "a", "p", "i", "t", "a", "n">>, <<"K", "a", "p", "i", "t", "a", "n">>, <<"m", "a", "j", "o", "r">>}
RankWide == {<<"r", "e", "k", "r", "u", "t">>, <<"R", "e", "k", "r", "u", "t">>, <<"R", "E", "K", "R", "U", "T">>, <<"r", "ya", "d", "o", "v", "y", "j">>, <<"s", "o", "l", "d", "a", "t">>, <<"s", "o", "l", "d", "a", "t", "a">>, <<"s", "t", "a", "r", "sh", "y", "j", " ", "s", "o", "l", "d", "a", "t">>,
             <<"S", "t", "a", "r", "sh", "y", "j", " ", "S", "o", "l", "d", "a", "t">>, <<"s", "e", "r", "zh", "a", "n", "t">>, <<"sh", "t", "a", "b", "s", "-", "s", "e", "r", "zh", "a", "n", "t">>, <<"SH", "t", "a", "b", "s", "-", "S", "e", "r", "zh", "a", "n", "t">>, <<"k", "a", "p", "i", "t", "a", "n">>,
             <<"K", "A", "P", "I", "T", "A", "N">>, <<"m", "a", "j", "o", "r">>, <<"p", "o", "l", "k", "o", "v", "n", "y", "k">>, <<"h", "e", "n", "e", "r", "a", "l", "-", "l", "e", "j", "t", "e", "n", "a", "n", "t">>, <<"h", "e", "n", "e", "r", "a", "l">>, <<"H", "e", "n", "e", "r", "a", "l">>,
             <<"m", "a", "t", "r", "o", "s">>, <<"a", "d", "m", "i", "r", "a", "l">>, <<"v", "i", "c", "e", "-", "a", "d", "m", "i", "r", "a", "l">>, <<"k", "a", "p", "i", "t", "a", "n", " ", "1", "-", "h", "o", " ", "r", "a", "n", "h", "u">>, <<"k", "a", "p", "i", "t", "a", "n", " ", "yu", "s", "t", "y", "c", "i", "yi">>,
             <<"m", "a", "j", "o", "r", " ", "m", "e", "d", "y", "ch", "n", "o", "yi", " ", "s", "l", "u", "zh", "b", "y">>, <<"m", "o", "l", "o", "d", "sh", "y", "j", " ", "s", "e", "r", "zh", "a", "n", "t", " ", "yu", "s", "t", "y", "c", "i", "yi">>,
             <<"h", "e", "n", "e", "r", "a", "l", "-", "l", "e", "j", "t", "e", "n", "a", "n", "t", " ", "yu", "s", "t", "y", "c", "i", "yi">>, <<"k", "o", "m", "a", "n", "d", "y", "r">>}

CallMaskIpn(S) ==
    \E o \in S : DoCall("mask_ipn", "ipn", o, "", << >>,
                        mask_ipn(o, masking_dict, instance_counters), fake_state)
CallMaskPassportId(S) ==
    \E o \in S : DoCall("mask_passport_id", "passport_id", o, "", << >>,
                        mask_passport_id(o, masking_dict, instance_counters), fake_state)
CallMaskMilitaryId(S) ==
    \E o \in S : DoCall("mask_military_id", "military_id", o, "", << >>,
                        mask_military_id(o, masking_dict, instance_counters), fake_state)
CallMaskMilitaryUnit(S) ==
    \E o \in S : DoCall("mask_military_unit", "military_unit", o, "", << >>,
                        mask_military_unit(o, masking_dict, instance_counters), fake_state)
CallMaskOrderNumber(S) ==
    \E o \in S : DoCall("mask_order_number", "order_number", o, "", << >>,
                        mask_order_number(o, masking_dict, instance_counters), fake_state)
CallMaskOrderNumberWithLetters(S) ==
    \E o \in S : DoCall("mask_order_number_with_letters", "order_number_with_letters", o, "", << >>,
                        mask_order_number_with_letters(o, masking_dict, instance_counters),
                        fake_state)
CallMaskBrNumber(S) ==
    \E o \in S : DoCall("mask_br_number", "br_number", o, "", << >>,
                        mask_br_number(o, masking_dict, instance_counters), fake_state)
CallMaskBrigadeNumber(S) ==
    \E o \in S : DoCall("mask_brigade_number", "brigade_number", o, "", << >>,
                        mask_brigade_number(o, masking_dict, instance_counters), fake_state)
CallMaskDate(S) ==
    \E o \in S : DoCall("mask_date", "date", o, "", << >>,
                        mask_date(o, masking_dict, instance_counters), fake_state)
CallMaskRank(S) ==
    \E o \in S : DoCall("mask_rank", "rank", o, "", << >>,
                        mask_rank(o, masking_dict, instance_counters), fake_state)
CallMaskSurname(S) ==
    \E o \in S :
        LET r == mask_surname(o, masking_dict, instance_counters, fake_state)
        IN  DoCall("mask_surname", "surname", o, "", << >>, r, r.fk)
CallMaskName(S, H) ==
    \E a \in S, h \in H :
        LET r == mask_name(a[1], a[2], h, masking_dict, instance_counters, fake_state)
        IN  DoCall("mask_name", "name", a[1], a[2], h, r, r.fk)
CallMaskPatronymic(S) ==
    \E a \in S :
        LET r == mask_patronymic(a[1], a[2], masking_dict, instance_counters, fake_state)
        IN  DoCall("mask_patronymic", "patronymic", a[1], a[2], << >>, r, r.fk)

\* add_to_mapping called directly with a supplied masked value
StoreCategories == {"ipn", "surname"}
StoreOriginals == {<<"H", "u", "k">>, <<"L", "y", "s">>}
StoreMasked == {<<"SH", "e", "v">>, <<"K", "o", "v", "a">>}
CallAddToMapping ==
    \E c \in StoreCategories, o \in StoreOriginals, m \in StoreMasked :
        DoCall("add_to_mapping", c, o, "", m,
               add_to_mapping(masking_dict, instance_counters, c, o, m), fake_state)

\* main() of a second process: a new run starts from an empty store
NewRun ==
    /\ pc = "calls"
    /\ nruns < MaxRuns
    /\ ncalls > 0
    /\ masking_dict' = EmptyMaskingDict
    /\ instance_counters' = EmptyFcn
    /\ fake_state' \in {[seed |-> SeedSpace + e, k |-> 0] : e \in 1..FakerStates}
    /\ last' = NoCall
    /\ ncalls' = 0
    /\ nruns' = nruns + 1
    /\ UNCHANGED <<HASH_ALGORITHM, first_masked, text, masked_text, restored_text, unmask_stats, pc>>

NoText ==
    /\ text = << >>
    /\ masked_text = << >>
    /\ restored_text = << >>
    /\ unmask_stats = NoStats

\* a run of generator calls on one store
Init == InitRun /\ pc = "calls" /\ NoText
Next ==
    \/ CallMaskIpn(IpnInputs)
    \/ CallMaskPassportId(PassportInputs)
    \/ CallMaskMilitaryId(MilitaryIdInputs)
    \/ CallMaskMilitaryUnit(MilitaryUnitInputs)
    \/ CallMaskOrderNumber(OrderInputs)
    \/ CallMaskOrderNumberWithLetters(OrderLettersInputs)
    \/ CallMaskBrNumber(BrInputs)
    \/ CallMaskBrigadeNumber(BrigadeInputs)
    \/ CallMaskDate(DateInputs)
    \/ CallMaskRank(RankInputs)
    \/ CallMaskSurname(SurnameInputs)
    \/ CallMaskName(NameInputs, {<< >>})
    \/ CallMaskPatronymic(PatronymicInputs)
Spec == Init /\ [][Next]_vars

\* direct calls of add_to_mapping on one store
NextStore == CallAddToMapping
SpecStore == Init /\ [][NextStore]_vars

\* one call of a generator on an empty store, over wide input sets
GenMaskIpn == ncalls = 0 /\ CallMaskIpn(IpnWide)
GenMaskPassportId == ncalls = 0 /\ CallMaskPassportId(PassportWide)
GenMaskMilitaryId == ncalls = 0 /\ CallMaskMilitaryId(MilitaryIdWide)
GenMaskMilitaryUnit == ncalls = 0 /\ CallMaskMilitaryUnit(MilitaryUnitWide)
GenMaskOrderNumber == ncalls = 0 /\ CallMaskOrderNumber(OrderWide)
GenMaskOrderNumberWithLetters == ncalls = 0 /\ CallMaskOrderNumberWithLetters(OrderLettersWide)
GenMaskBrNumber == ncalls = 0 /\ CallMaskBrNumber(BrWide)
GenMaskBrigadeNumber == ncalls = 0 /\ CallMaskBrigadeNumber(BrigadeWide)
GenMaskDate == ncalls = 0 /\ CallMaskDate(DateWide)
GenMaskRank == ncalls = 0 /\ CallMaskRank(RankWide)
GenMaskSurname == ncalls = 0 /\ CallMaskSurname(SurnameWide)
GenMaskName == ncalls = 0 /\ CallMaskName(NameWide, NameHints)
NextGen ==
    \/ GenMaskIpn \/ GenMaskPassportId \/ GenMaskMilitaryId \/ GenMaskMilitaryUnit
    \/ GenMaskOrderNumber \/ GenMaskOrderNumberWithLetters \/ GenMaskBrNumber
    \/ GenMaskBrigadeNumber \/ GenMaskDate \/ GenMaskRank \/ GenMaskSurname \/ GenMaskName
SpecGen == Init /\ [][NextGen]_vars

\* several runs of one process image: the generators that draw from fake_uk, and two that do not
RunsSurnames == {<<"SH", "e", "v", "ch", "e", "n", "k", "o">>, <<"H", "u", "k">>}
RunsNames == {<<<<"H", "r", "y", "h", "o", "r", "i", "j">>, "">>, <<<<"I", "v", "a", "n">>, "">>}
RunsPatronymics == {<<<<"I", "v", "a", "n", "o", "v", "y", "ch">>, "male">>}
RunMaskSurname == ncalls < MaxRunCalls /\ CallMaskSurname(RunsSurnames)
RunMaskName == ncalls < MaxRunCalls /\ CallMaskName(RunsNames, {<< >>})
RunMaskPatronymic == ncalls < MaxRunCalls /\ CallMaskPatronymic(RunsPatronymics)
RunMaskDate == ncalls < MaxRunCalls /\ CallMaskDate({<<"1", "5", ".", "0", "3", ".", "2", "0", "2", "4">>})
NextRuns == RunMaskSurname \/ RunMaskName \/ RunMaskPatronymic \/ RunMaskDate \/ NewRun
SpecRuns == Init /\ [][NextRuns]_vars
-----------------------------------------------------------------------------
(* Properties of the mapping store *)

CounterOf(ic, M) == IF M \in DOMAIN ic THEN ic[M] ELSE 0
\* the key a generator records an original under
KeyOf(category, arg) == IF category \in {"rank", "patronymic"} THEN lower(arg) ELSE arg
IsCallStep == ncalls' = ncalls + 1

C3_Step ==
    (IsCallStep /\ last'.op = "add_to_mapping") =>
        LET c == last'.category
            o == last'.arg
            isNew == o \notin DOMAIN masking_dict.mappings[c]
            M == IF isNew THEN last'.supplied ELSE masking_dict.mappings[c][o].masked_as
            n == CounterOf(instance_counters, M) + 1
            before == IF isNew THEN << >> ELSE masking_dict.mappings[c][o].instances
        IN  /\ o \in DOMAIN masking_dict'.mappings[c]
            /\ masking_dict'.mappings[c][o] = [masked_as |-> M, instances |-> Append(before, n)]
            /\ masking_dict'.statistics[c] = masking_dict.statistics[c] + (IF isNew THEN 1 ELSE 0)
            /\ \A d \in Categories \ {c} :
                    /\ masking_dict'.statistics[d] = masking_dict.statistics[d]
                    /\ masking_dict'.mappings[d] = masking_dict.mappings[d]
            /\ DOMAIN masking_dict'.mappings[c] = DOMAIN masking_dict.mappings[c] \cup {o}
            /\ \A x \in DOMAIN masking_dict.mappings[c] \ {o} :
                    masking_dict'.mappings[c][x] = masking_dict.mappings[c][x]
            /\ instance_counters' = Extend(instance_counters, M, n)
            /\ last'.ret = M

\* C3: add_to_mapping creates a record {masked_as: masked, instances: []} and adds one to the
\* category's statistic when the original is new, and otherwise ignores the supplied value and
\* leaves the statistic alone; in both cases it appends the next counter value of the (stored
\* or supplied) masked value to the record's instances and returns that masked value.
C3_AddToMappingContract == [][C3_Step]_vars

\* C3 witness: a repeated original was given a different masked value, which was ignored
C3_Witness ==
    /\ last.op = "add_to_mapping"
    /\ last.supplied # last.ret
    /\ Len(masking_dict.mappings[last.category][last.arg].instances) >= 2
    /\ masking_dict.statistics[last.category] = 1

\* the instance entries recorded for the masked value M, as <<category, original, position>>
InstanceEntries(M) ==
    {e \in UNION {{<<p[1], p[2], i>> : i \in DOMAIN masking_dict.mappings[p[1]][p[2]].instances} :
                    p \in AllKeys(masking_dict)} :
        masking_dict.mappings[e[1]][e[2]].masked_as = M}
AllMasked == {masking_dict.mappings[p[1]][p[2]].masked_as : p \in AllKeys(masking_dict)}

C4_Numbered ==
    \A M \in AllMasked \cup DOMAIN instance_counters :
        /\ Cardinality(InstanceEntries(M)) = CounterOf(instance_counters, M)
        /\ {masking_dict.mappings[e[1]][e[2]].instances[e[3]] : e \in InstanceEntries(M)}
              = 1..CounterOf(instance_counters, M)

C4_Step ==
    /\ \A M \in DOMAIN instance_counters :
            M \in DOMAIN instance_counters' /\ instance_counters'[M] >= instance_counters[M]
    /\ (IsCallStep /\ last'.op # "mask_json_recursive") =>
            \/ masking_dict' = masking_dict /\ instance_counters' = instance_counters
            \/ \E M \in AllMasked' :
                    instance_counters' = Extend(instance_counters, M, CounterOf(instance_counters, M) + 1)

C5_Step ==
    (IsCallStep /\ last'.category # "" /\ last'.op # "add_to_mapping"
        /\ Mapped(masking_dict, last'.category, KeyOf(last'.category, last'.arg))) =>
        LET c == last'.category
            k == KeyOf(c, last'.arg)
            old == masking_dict.mappings[c][k]
            new == masking_dict'.mappings[c][k]
        IN  /\ IF c \in {"rank", "patronymic"} THEN lower(last'.ret) = lower(old.masked_as)
               ELSE last'.ret = old.masked_as
            /\ new.masked_as = old.masked_as
            /\ Len(new.instances) = Len(old.instances) + 1
            /\ SubSeq(new.instances, 1, Len(old.instances)) = old.instances
            /\ AllKeys(masking_dict') = AllKeys(masking_dict)
            /\ masking_dict'.statistics = masking_dict.statistics

\* C5: once an original is recorded in a category, every later masking call for it on the same
\* store returns the recorded masked value (for ranks and patronymics, keyed by the lower-cased
\* original, up to letter case), adds one instance number to that record and creates no record.
C5_IdempotentMasking == [][C5_Step]_vars

\* C5 witness: a rank met again in another letter case came back restyled from the same record
C5_Witness ==
    /\ last.op = "mask_rank"
    /\ Mapped(masking_dict, "rank", lower(last.arg))
    /\ Len(masking_dict.mappings["rank"][lower(last.arg)].instances) >= 2
    /\ last.ret # masking_dict.mappings["rank"][lower(last.arg)].masked_as
    /\ lower(last.ret) = lower(masking_dict.mappings["rank"][lower(last.arg)].masked_as)

\* C6: the value generated for an original on its first encounter depends only on the original
\* and the hash algorithm: over all runs of a process, every <<category, original>> has had at
\* most one generated value.
C6_FirstMaskDependsOnlyOnOriginal ==
    \A p \in DOMAIN first_masked : Cardinality(first_masked[p]) <= 1
-----------------------------------------------------------------------------
(* Properties of the generators *)

\* the call recorded a value generated for its argument
Generated == last.op # "none" /\ last.category # ""
             /\ Mapped(masking_dict, last.category, KeyOf(last.category, last.arg))

WellFormedIpn(s) == Len(s) = 10 /\ isdigit(s)
WellFormedPassportId(s) == Len(s) = 9 /\ isdigit(s)
\* ######, AA######, AA ###### or AA-######
WellFormedMilitaryId(s) ==
    \/ Len(s) = 6 /\ isdigit(s)
    \/ Len(s) \in {8, 9} /\ IsUpperChar(s[1]) /\ IsUpperChar(s[2]) /\ isdigit(Suffix(s, 6))
       /\ (Len(s) = 9 => s[3] \in {" ", "-"})
WellFormedMilitaryUnit(s) == Len(s) = 5 /\ IsUpperChar(s[1]) /\ isdigit(Suffix(s, 4))

\* C7: for a well-formed input, mask_ipn returns 10 digits with positions 1-3 and 10 of the
\* original, mask_passport_id 9 digits with positions 1-3 and 9 of the original,
\* mask_military_id the same letter prefix and separator and 6 digits whose first 2 and last 2
\* are the original's, mask_military_unit the same leading letter followed by 4 digits.
C7_IdentifierFormatPreserved ==
    /\ (last.op = "mask_ipn" /\ WellFormedIpn(last.arg)) =>
            /\ Len(last.ret) = 10 /\ isdigit(last.ret)
            /\ Prefix(last.ret, 3) = Prefix(last.arg, 3)
            /\ last.ret[10] = last.arg[10]
    /\ (last.op = "mask_passport_id" /\ WellFormedPassportId(last.arg)) =>
            /\ Len(last.ret) = 9 /\ isdigit(last.ret)
            /\ Prefix(last.ret, 3) = Prefix(last.arg, 3)
            /\ last.ret[9] = last.arg[9]
    /\ (last.op = "mask_military_id" /\ WellFormedMilitaryId(last.arg)) =>
            /\ Len(last.ret) = Len(last.arg)
            /\ Prefix(last.ret, Len(last.arg) - 6) = Prefix(last.arg, Len(last.arg) - 6)
            /\ isdigit(Suffix(last.ret, 6))
            /\ Prefix(Suffix(last.ret, 6), 2) = Prefix(Suffix(last.arg, 6), 2)
            /\ Suffix(last.ret, 2) = Suffix(last.arg, 2)
    /\ (last.op = "mask_military_unit" /\ WellFormedMilitaryUnit(last.arg)) =>
            /\ Len(last.ret) = 5 /\ last.ret[1] = last.arg[1] /\ isdigit(Suffix(last.ret, 4))

\* C7 witness: a military ID with a letter prefix and a hyphen was masked to another value
C7_Witness ==
    /\ last.op = "mask_military_id" /\ WellFormedMilitaryId(last.arg)
    /\ Len(last.arg) = 9 /\ last.arg[3] = "-"
    /\ Generated /\ last.ret # last.arg

\* the masked value keeps the length, the non-digit characters and the digit positions
SameShape(arg, ret) ==
    /\ Len(ret) = Len(arg)
    /\ \A i \in DOMAIN arg : IF IsDigit(arg[i]) THEN IsDigit(ret[i]) ELSE ret[i] = arg[i]

\* C8: for order numbers, brigade numbers and BR numbers the masked value has the length of the
\* original, every non-digit character stays at its position, and every digit run is replaced
\* by freshly drawn digits of the same length (none is copied through), that is, every digit
\* of the original is redrawn.
C8_DigitRunsKeepShape ==
    (Generated /\ last.op \in {"mask_order_number", "mask_br_number", "mask_brigade_number"}) =>
        /\ SameShape(last.arg, last.ret)
        /\ last.ret = ReplaceDigits(last.arg, get_deterministic_seed(last.arg), 1)

\* C9: mask_date returns, for a calendar-valid original DD.MM.YYYY with year in 2015..2035, a
\* calendar-valid date DD.MM.YYYY with year in 2015..2035; any other original of that shape is
\* returned unchanged and nothing is recorded.
C9_MaskedDateValid ==
    (last.op = "mask_date" /\ DateShape(last.arg) /\ Len(last.arg) = 10) =>
        LET d == ParseDate(last.arg)
            valid == d.year \in MinYear..MaxYear /\ CalendarValid(d.day, d.month, d.year)
        IN  IF valid
            THEN /\ Len(last.ret) = 10 /\ DateShape(last.ret)
                 /\ LET m == ParseDate(last.ret)
                    IN  m.year \in MinYear..MaxYear /\ CalendarValid(m.day, m.month, m.year)
                 /\ Generated
            ELSE /\ last.ret = last.arg
                 /\ masking_dict = EmptyMaskingDict
                 /\ instance_counters = EmptyFcn

\* C9 witness: a valid date was shifted out of the range and clamped back into it
C9_Witness ==
    /\ last.op = "mask_date" /\ Generated
    /\ MovedDate(last.arg).year \notin MinYear..MaxYear
    /\ ParseDate(last.ret).year \in MinYear..MaxYear

\* the bounded retry loop of the generator ran and was exhausted for this call
RetryExhausted(op, arg, gender, hint, fk) ==
    \/ op = "mask_rank" /\ GenerateRank(lower(arg)).attempts = 10
    \/ op = "mask_name" /\ GenerateName(arg, gender, hint, fk).attempts = 10

C10_Step ==
    (IsCallStep /\ last'.op \in {"mask_rank", "mask_name", "mask_surname"}
        /\ ~Mapped(masking_dict, last'.category, KeyOf(last'.category, last'.arg))
        /\ Mapped(masking_dict', last'.category, KeyOf(last'.category, last'.arg))) =>
        \/ lower(last'.ret) # lower(last'.arg)
        \/ RetryExhausted(last'.op, last'.arg, last'.gender, last'.supplied, fake_state)

\* C10: a freshly generated masked rank, given name or surname differs from its original
\* case-insensitively, unless the generator's retry loop (at most 10 further attempts) was run
\* and exhausted for that value.
C10_NoSelfMapping == [][C10_Step]_vars
-----------------------------------------------------------------------------
(* Text: positions are counted from 0 and a span is [start, end), as in re *)

\* bound of the model: length of a text, below the 100 characters of text[pos:pos+100]
MaxTextLen == 60

\* s[i], or "" outside the string
At(s, i) == IF i >= 0 /\ i < Len(s) THEN s[i + 1] ELSE ""
\* s[i:]
From(s, i) == IF i >= Len(s) THEN << >> ELSE SubSeq(s, i + 1, Len(s))
\* s[a:b]
Cut(s, a, b) == IF a >= b \/ a >= Len(s) THEN << >> ELSE SubSeq(s, a + 1, Min(b, Len(s)))
\* s[:start] + new + s[end:]
ReplaceSpan(s, start, end, new) == Cut(s, 0, start) \o new \o From(s, end)
\* \b at position i
WordBoundary(s, i) == IsWordChar(At(s, i - 1)) # IsWordChar(At(s, i))

\* length of the run of characters of C that starts at position i
RunLen(s, i, C) ==
    IF At(s, i) \notin C THEN 0 ELSE Least({j \in i..Len(s) : At(s, j) \notin C}) - i

\* s[i:].startswith(w)
StartsAt(s, i, w) == Cut(s, i, i + Len(w)) = w /\ i + Len(w) <= Len(s)

\* s.find(sub, i): the first position >= i where sub occurs, or -1
FindFrom(s, sub, i) ==
    LET places == {j \in i..(Len(s) - Len(sub)) : StartsAt(s, j, sub)}
    IN  IF places = {} THEN -1 ELSE Least(places)
\* s.find(sub)
Find(s, sub) == FindFrom(s, sub, 0)
\* s.replace(old, new, 1)
Replace1(s, old, new) ==
    IF Find(s, old) < 0 THEN s
    ELSE ReplaceSpan(s, Find(s, old), Find(s, old) + Len(old), new)

RECURSIVE FindIterFrom(_, _, _)
\* re.finditer: ends[i] is the end of the match starting at i, or -1; the scan goes on
\* behind each match, so the matches do not overlap
FindIterFrom(ends, pos, n) ==
    LET starts == {p \in pos..(n - 1) : ends[p] > p}
    IN  IF starts = {} THEN << >>
        ELSE <<[start |-> Least(starts), end |-> ends[Least(starts)]]>>
             \o FindIterFrom(ends, ends[Least(starts)], n)
FindIter(s, ends) == FindIterFrom(ends, 0, Len(s))

\* [А-Яа-яA-Za-z]
RangeLetters == CyrUpperSet \cup CyrLowerSet \cup LatinUpperSet \cup LatinLowerSet

RECURSIVE NumberRunsEnd(_, _)
\* end of (?:[/-]\d+)* matched from position p
NumberRunsEnd(s, p) ==
    IF At(s, p) \in {"/", "-"} /\ IsDigit(At(s, p + 1))
    THEN NumberRunsEnd(s, p + 1 + RunLen(s, p + 1, DigitSet))
    ELSE p
RECURSIVE LetterRunsEnd(_, _)
\* end of (?:[/-][А-Яа-яA-Za-z]+)* matched from position p
LetterRunsEnd(s, p) ==
    IF At(s, p) \in {"/", "-"} /\ At(s, p + 1) \in RangeLetters
    THEN LetterRunsEnd(s, p + 1 + RunLen(s, p + 1, RangeLetters))
    ELSE p
\* end of \d+(?:[/-]\d+)* matched from position p, where a digit stands
NumberEnd(s, p) == NumberRunsEnd(s, p + RunLen(s, p, DigitSet))
\* start of the digits after [-\s]? matched from position q, or -1
DigitsAfterSep(s, q) ==
    IF IsDigit(At(s, q)) THEN q
    ELSE IF (At(s, q) = "-" \/ IsSpace(At(s, q))) /\ IsDigit(At(s, q + 1)) THEN q + 1
    ELSE -1

-----------------------------------------------------------------------------
(* Span detection of mask_text_context_aware *)

NoItem == [type |-> "none", full_text |-> << >>, number_part |-> << >>, start |-> 0, end |-> 0]
Item(type, s, start, end, nstart, nend) ==
    [type |-> type, full_text |-> Cut(s, start, end), number_part |-> Cut(s, nstart, nend),
     start |-> start, end |-> end]

\* m is the position of the sign U+2116
analyze_number_sign_context(s, m) ==
    LET w == m + 1 + RunLen(s, m + 1, WhiteSpace)
        is_br == LowerChar(At(s, w)) = "b" /\ LowerChar(At(s, w + 1)) = "r"
        br_digits == DigitsAfterSep(s, w + 2)
        br_end == LetterRunsEnd(s, NumberEnd(s, br_digits))
        n_end0 == NumberEnd(s, w)
        n_end == IF At(s, n_end0) \in {"/", "-"} /\ At(s, n_end0 + 1) \in RangeLetters
                 THEN n_end0 + 1 + RunLen(s, n_end0 + 1, RangeLetters)
                 ELSE n_end0 + RunLen(s, n_end0, RangeLetters)
        number_text == Cut(s, w, n_end)
        slashes == Cardinality({k \in DOMAIN number_text : number_text[k] = "/"})
    IN  IF is_br /\ br_digits >= 0 THEN Item("br_complex", s, m, br_end, br_digits, br_end)
        ELSE IF ~IsDigit(At(s, w)) THEN NoItem
        ELSE IF BrSuffix(lower(number_text)) # << >>
             THEN Item(IF slashes >= 2 THEN "br_with_slashes" ELSE "br_with_suffix",
                       s, m, n_end, w, n_end)
        ELSE IF n_end > n_end0 THEN Item("order_with_letters", s, m, n_end, w, n_end)
        ELSE Item("order_simple", s, m, n_end, w, n_end)

\* m is the position of a match of \bБР\b
analyze_br_keyword(s, m) ==
    LET digits == DigitsAfterSep(s, m + 2)
        e0 == NumberEnd(s, digits)
        e == IF lower(Cut(s, e0, e0 + 3)) = <<"d", "s", "k">> THEN e0 + 3
             ELSE IF LowerChar(At(s, e0)) \in {"p", "k"} THEN e0 + 1 ELSE e0
    IN  IF digits < 0 THEN NoItem ELSE Item("br_standalone", s, m, e, digits, e)

\* the legal citation words of legal_patterns, lower case
LegalTerms ==
    {<<"s", "t", "a", "t", "e", "j">>, <<"s", "t", "a", "t", "e", "yi">>, <<"s", "t", "a", "t", "q", "i">>, <<"s", "t", "a", "t", "q", "e">>, <<"s", "t", "a", "t", "q", "yu">>, <<"s", "t", "a", "t", "q", "ya">>,
     <<"p", "u", "n", "k", "t", "u">>, <<"p", "u", "n", "k", "t", "a">>, <<"p", "u", "n", "k", "t", "y">>, <<"p", "u", "n", "k", "t", "i">>, <<"p", "u", "n", "k", "t", "e">>, <<"p", "u", "n", "k", "t", "ye">>,
     <<"ch", "a", "s", "t", "y", "n", "a">>, <<"ch", "a", "s", "t", "y", "n", "y">>, <<"ch", "a", "s", "t", "y", "n", "yu">>, <<"ch", "a", "s", "t", "y", "n", "i">>, <<"ch", "a", "s", "t", "y", "n", "e">>, <<"ch", "a", "s", "t", "y", "n", "ye">>,
     <<"r", "o", "z", "d", "i", "l", "u">>, <<"r", "o", "z", "d", "i", "l", "a">>, <<"r", "o", "z", "d", "i", "l", "i">>, <<"r", "o", "z", "d", "i", "l", "e">>, <<"r", "o", "z", "d", "i", "l", "ye">>}

RECURSIVE LegalNumbers(_, _)
\* the digit runs of (\d+(?:\s*,\s*\d+)*) matched from position p
LegalNumbers(s, p) ==
    LET d == RunLen(s, p, DigitSet)
        c == p + d + RunLen(s, p + d, WhiteSpace)
        q == c + 1 + RunLen(s, c + 1, WhiteSpace)
    IN  IF d = 0 THEN {}
        ELSE {[start |-> p, end |-> p + d]}
             \cup (IF At(s, c) = "," /\ IsDigit(At(s, q)) THEN LegalNumbers(s, q) ELSE {})

\* items_to_skip: the numbers that follow a legal citation word (MASK_DATES is True)
items_to_skip(s) ==
    UNION {LET p == i + Len(t) + RunLen(s, i + Len(t), WhiteSpace)
           IN  IF StartsAt(lower(s), i, t) /\ p > i + Len(t) THEN LegalNumbers(s, p) ELSE {}
           : i \in 0..(Len(s) - 1), t \in LegalTerms}

\* the sequence of the elements of the set of positions P, ascending
RECURSIVE Ascending(_)
Ascending(P) ==
    IF P = {} THEN << >>
    ELSE LET m == CHOOSE x \in P : \A y \in P : x <= y IN <<m>> \o Ascending(P \ {m})

\* the pass over the signs U+2116
NumberSignItems(s) ==
    LET found == [k \in DOMAIN Ascending({i \in 0..(Len(s) - 1) : At(s, i) = "#"}) |->
                    analyze_number_sign_context(
                        s, Ascending({i \in 0..(Len(s) - 1) : At(s, i) = "#"})[k])]
    IN  SelectSeq(found, LAMBDA it : it.type # "none")

\* the matches of \bБР\b (IGNORECASE) that analyze_br_keyword accepts
BrKeywordItems(s) ==
    LET P == {i \in 0..(Len(s) - 1) :
                 /\ StartsAt(lower(s), i, <<"b", "r">>)
                 /\ WordBoundary(s, i) /\ WordBoundary(s, i + 2)}
        found == [k \in DOMAIN Ascending(P) |-> analyze_br_keyword(s, Ascending(P)[k])]
    IN  SelectSeq(found, LAMBDA it : it.type # "none")

\* \b\d{n}\b at position i: the end of the match, or -1
DigitsMatchEnd(s, i, n) ==
    IF WordBoundary(s, i) /\ RunLen(s, i, DigitSet) >= n /\ WordBoundary(s, i + n)
    THEN i + n ELSE -1

\* \b[A-ZА-Я]{2}[\s-]?\d{6}\b with IGNORECASE at position i
MilitaryIdMatchEnd(s, i) ==
    LET d == IF IsSpace(At(s, i + 2)) \/ At(s, i + 2) = "-" THEN i + 3 ELSE i + 2
    IN  IF /\ WordBoundary(s, i)
           /\ At(s, i) \in RangeLetters /\ At(s, i + 1) \in RangeLetters
           /\ RunLen(s, d, DigitSet) >= 6 /\ WordBoundary(s, d + 6)
        THEN d + 6 ELSE -1

\* \b[А-ЯA-Z]\d{4}\b at position i
MilitaryUnitMatchEnd(s, i) ==
    IF /\ WordBoundary(s, i)
       /\ At(s, i) \in CyrUpperSet \cup LatinUpperSet
       /\ RunLen(s, i + 1, DigitSet) >= 4 /\ WordBoundary(s, i + 5)
    THEN i + 5 ELSE -1

\* the alternatives of PATTERNS["brigade_number"], in order
BrigadeWords ==
    <<<<"o", "k", "r", "e", "m", "o", "yi", " ", "m", "e", "x", "a", "n", "i", "z", "o", "v", "a", "n", "o", "yi", " ", "b", "r", "y", "h", "a", "d", "y">>, <<"o", "m", "b", "r">>, <<"o", "sh", "p">>, <<"o", "sh", "b", "r">>, <<"b", "r", "y", "h", "a", "d", "y">>,
      <<"o", "k", "r", "e", "m", "o", "yi", " ", "sh", "t", "u", "r", "m", "o", "v", "o", "yi", " ", "b", "r", "y", "h", "a", "d", "y">>, <<"d", "e", "s", "a", "n", "t", "n", "o", "-", "sh", "t", "u", "r", "m", "o", "v", "o", "yi", " ", "b", "r", "y", "h", "a", "d", "y">>, <<"d", "sh", "b">>,
      <<"t", "a", "n", "k", "o", "v", "o", "yi", " ", "b", "r", "y", "h", "a", "d", "y">>, <<"t", "b", "r">>>>

\* PATTERNS["brigade_number"] (IGNORECASE) at position i: [number end, match end], or -1
BrigadeMatch(s, i) ==
    LET d == RunLen(s, i, DigitSet)
        w == RunLen(s, i + d, WhiteSpace)
        p == i + d + w
        hits == {j \in DOMAIN BrigadeWords :
                    StartsAt(lower(s), p, BrigadeWords[j])
                    /\ WordBoundary(s, p + Len(BrigadeWords[j]))}
        j == CHOOSE j \in hits : \A h \in hits : j <= h
    IN  IF WordBoundary(s, i) /\ d > 0 /\ w > 0 /\ hits # {}
        THEN [number_end |-> i + d, end |-> p + Len(BrigadeWords[j])]
        ELSE [number_end |-> -1, end |-> -1]

\* PATTERNS["date"] at position i: the end of the match, or -1
DateMatchEnd(s, i) ==
    IF WordBoundary(s, i) /\ DateShape(From(s, i)) /\ WordBoundary(s, i + 10)
    THEN i + 10 ELSE -1

Positions(s) == 0..(Len(s) - 1)
\* the matches of a pattern as items
MatchItems(type, s, ends) ==
    LET found == FindIter(s, ends)
    IN  [k \in DOMAIN found |-> Item(type, s, found[k].start, found[k].end,
                                     found[k].start, found[k].end)]

IpnItems(s) == MatchItems("ipn", s, [i \in Positions(s) |-> DigitsMatchEnd(s, i, 10)])
PassportItems(s) == MatchItems("passport_id", s, [i \in Positions(s) |-> DigitsMatchEnd(s, i, 9)])
MilitaryIdItems(s) == MatchItems("military_id", s, [i \in Positions(s) |-> MilitaryIdMatchEnd(s, i)])
MilitaryUnitItems(s) ==
    MatchItems("military_unit", s, [i \in Positions(s) |-> MilitaryUnitMatchEnd(s, i)])
BrigadeItems(s) ==
    LET found == FindIter(s, [i \in Positions(s) |-> BrigadeMatch(s, i).end])
    IN  [k \in DOMAIN found |-> Item("brigade_number", s, found[k].start, found[k].end,
                                     found[k].start, BrigadeMatch(s, found[k].start).number_end)]
\* the date matches that pass is_valid_date
DateItems(s) ==
    SelectSeq(MatchItems("date", s, [i \in Positions(s) |-> DateMatchEnd(s, i)]),
              LAMBDA it : LET d == ParseDate(it.full_text)
                          IN  is_valid_date(d.day, d.month, d.year))

Overlaps(a, b) == a.start < b.end /\ a.end > b.start
Inside(a, b) == a.start >= b.start /\ a.end <= b.end

\* every candidate registered, whatever it meets
AddEveryCandidate(items, skips, cands, skip_on_overlap) == items \o cands

RECURSIVE AddCandidates(_, _, _, _)
\* a candidate is dropped when it meets a skip span (overlapping it, or lying inside it) or
\* overlaps an item registered before it
AddCandidates(items, skips, cands, skip_on_overlap) ==
    IF cands = << >> THEN items
    ELSE LET c == Head(cands)
             skip == \/ \E k \in skips : IF skip_on_overlap THEN Overlaps(c, k) ELSE Inside(c, k)
                     \/ \E j \in DOMAIN items : Overlaps(c, items[j])
         IN  AddCandidates(IF skip THEN items ELSE Append(items, c), skips, Tail(cands),
                           skip_on_overlap)

\* items_to_mask before sorting: the passes in their order
items_to_mask(s) ==
    LET skips == items_to_skip(s)
        p1 == NumberSignItems(s)
        p2 == AddCandidates(p1, skips, BrKeywordItems(s), TRUE)
        p3 == AddCandidates(p2, skips, IpnItems(s), FALSE)
        p4 == AddCandidates(p3, skips, PassportItems(s), FALSE)
        p5 == AddCandidates(p4, skips, MilitaryIdItems(s), FALSE)
        p6 == AddCandidates(p5, skips, MilitaryUnitItems(s), FALSE)
        p7 == AddCandidates(p6, skips, BrigadeItems(s), FALSE)
    IN  AddCandidates(p7, skips, DateItems(s), FALSE)

\* the items in the order of their registration
InRegistrationOrder(items) == items

RECURSIVE SortByStartDescending(_)
\* items_to_mask.sort(key=start, reverse=True): a stable sort
SortByStartDescending(items) ==
    IF items = << >> THEN << >>
    ELSE LET m == CHOOSE j \in DOMAIN items :
                    \A k \in DOMAIN items :
                        \/ items[k].start < items[j].start
                        \/ items[k].start = items[j].start /\ j <= k
         IN  <<items[m]>>
             \o SortByStartDescending([k \in 1..(Len(items) - 1) |->
                                          IF k < m THEN items[k] ELSE items[k + 1]])

\* the masking call the substitution loop makes for an item
MaskItem(it, md, ic) ==
    CASE it.type = "ipn" -> mask_ipn(it.number_part, md, ic)
      [] it.type = "passport_id" -> mask_passport_id(it.number_part, md, ic)
      [] it.type = "military_id" -> mask_military_id(it.number_part, md, ic)
      [] it.type = "military_unit" -> mask_military_unit(it.number_part, md, ic)
      [] it.type = "brigade_number" -> mask_brigade_number(it.full_text, md, ic)
      [] it.type = "date" -> mask_date(it.full_text, md, ic)
      [] it.type = "order_simple" -> mask_order_number(it.number_part, md, ic)
      [] it.type = "order_with_letters" -> mask_order_number_with_letters(it.number_part, md, ic)
      [] OTHER -> mask_br_number(it.full_text, md, ic)

\* one round of the substitution loop: st is [text, md, ic]
SubstituteItem(st, it) ==
    IF Cut(st.text, it.start, it.end) # it.full_text THEN st
    ELSE
    With([r \in {MaskItem(it, st.md, st.ic)} |->
    With([new \in {IF it.type \in {"order_simple", "order_with_letters"}
         THEN Replace1(it.full_text, it.number_part, r.ret)
         ELSE r.ret} |->
        [text |-> IF new = << >> THEN st.text ELSE ReplaceSpan(st.text, it.start, it.end, new),
         md |-> r.md, ic |-> r.ic]])])

RECURSIVE SubstituteItems(_, _)
SubstituteItems(st, items) ==
    IF items = << >> THEN st
    ELSE SubstituteItems(SubstituteItem(st, Head(items)), Tail(items))

\* mask_text_context_aware up to the substitution loop
MaskSpans(s, md, ic) ==
    SubstituteItems([text |-> s, md |-> md, ic |-> ic], SortByStartDescending(items_to_mask(s)))
-----------------------------------------------------------------------------
(* Line parsing of mask_text_context_aware *)

\* length of the run of non-whitespace characters that starts at position i
WordLen(s, i) ==
    IF i >= Len(s) THEN 0 ELSE Least({j \in i..Len(s) : j = Len(s) \/ At(s, j) \in WhiteSpace}) - i
RECURSIVE SplitFrom(_, _)
SplitFrom(s, i) ==
    LET a == i + RunLen(s, i, WhiteSpace)
    IN  IF a >= Len(s) THEN << >> ELSE <<Cut(s, a, a + WordLen(s, a))>> \o SplitFrom(s, a + WordLen(s, a))
\* str.split()
split(s) == SplitFrom(s, 0)
RECURSIVE Join(_, _)
\* sep.join(words)
Join(words, sep) ==
    IF words = << >> THEN << >>
    ELSE IF Len(words) = 1 THEN words[1] ELSE words[1] \o sep \o Join(Tail(words), sep)
RECURSIVE SplitLines(_)
\* str.split('\n')
SplitLines(s) ==
    IF Find(s, <<"\n">>) < 0 THEN <<s>>
    ELSE <<Cut(s, 0, Find(s, <<"\n">>))>> \o SplitLines(From(s, Find(s, <<"\n">>) + 1))
\* re.sub(r'\s+', ' ', s): a white-space run leaves one space
CollapseSpaces(s) ==
    LET marked == [i \in DOMAIN s |->
                      [c |-> IF s[i] \in WhiteSpace THEN " " ELSE s[i],
                       keep |-> s[i] \notin WhiteSpace \/ At(s, i - 2) \notin WhiteSpace]]
        kept == SelectSeq(marked, LAMBDA x : x.keep)
    IN  [i \in DOMAIN kept |-> kept[i].c]
\* sub in s
ContainsSub(s, sub) == Find(s, sub) >= 0
\* s[a:b] of a list
Items(q, a, b) == IF a >= b \/ a >= Len(q) THEN << >> ELSE SubSeq(q, a + 1, Min(b, Len(q)))
RECURSIVE SubSpans(_, _, _)
\* re.sub: the matches (in descending order of position) replaced by new
SubSpans(s, spans, new) ==
    IF spans = << >> THEN s
    ELSE SubSpans(ReplaceSpan(s, spans[Len(spans)].start, spans[Len(spans)].end, new),
                  SubSeq(spans, 1, Len(spans) - 1), new)

normalize_string(s) ==
    Strip(CollapseSpaces([i \in DOMAIN s |-> IF s[i] \in {".", ";"} THEN " " ELSE LowerChar(s[i])]),
          WhiteSpace)

\* the entries of EXCLUDE_WORDS that the alphabet of the model can spell
EXCLUDE_WORDS ==
    {<<"D", "i", "j", "s", "n", "y", "m">>, <<"d", "i", "j", "s", "n", "y", "m">>, <<"V", "i", "d", "p", "o", "v", "i", "d", "n", "o">>, <<"v", "i", "d", "p", "o", "v", "i", "d", "n", "o">>, <<"Z", "h", "i", "d", "n", "o">>, <<"z", "h", "i", "d", "n", "o">>,
     <<"V", "i", "d", "p", "o", "v", "i", "d", "a", "l", "q", "n", "y", "j">>, <<"v", "i", "d", "p", "o", "v", "i", "d", "a", "l", "q", "n", "y", "j">>, <<"K", "o", "m", "a", "n", "d", "y", "r">>, <<"k", "o", "m", "a", "n", "d", "y", "r">>, <<"k", "o", "m", "a", "n", "d", "y", "r", "a">>,
     <<"N", "a", "ch", "a", "l", "q", "n", "y", "k">>, <<"n", "a", "ch", "a", "l", "q", "n", "y", "k">>, <<"Z", "a", "s", "t", "u", "p", "n", "y", "k">>, <<"z", "a", "s", "t", "u", "p", "n", "y", "k">>,
     <<"V", "y", "k", "o", "n", "u", "yu", "ch", "y", "j">>, <<"v", "y", "k", "o", "n", "u", "yu", "ch", "y", "j">>,
     <<"d", "o", "p", "o", "v", "i", "d", "a", "yu">>, <<"p", "r", "o", "sh", "u">>, <<"n", "a", "k", "a", "z", "u", "yu">>, <<"p", "r", "y", "z", "n", "a", "ch", "y", "t", "y">>, <<"z", "v", "i", "l", "q", "n", "y", "t", "y">>,
     <<"p", "r", "o", "ya", "v", "y", "v">>, <<"v", "y", "k", "o", "n", "a", "v">>, <<"o", "h", "o", "l", "o", "s", "y", "t", "y">>,
     <<"p", "r", "o">>, <<"p", "o">>, <<"v", "i", "d">>, <<"d", "o">>, <<"z", "a">>, <<"s", "u", "t", "i">>, <<"m", "n", "o", "yu">>, <<"V", "a", "s">>, <<"v", "a", "s">>,
     <<"p", "o", "r", "u", "sh", "e", "n", "n", "ya">>, <<"v", "y", "m", "o", "h">>,
     <<"Z", "b", "r", "o", "j", "n", "y", "x">>, <<"z", "b", "r", "o", "j", "n", "y", "x">>, <<"U", "k", "r", "a", "yi", "n", "y">>, <<"u", "k", "r", "a", "yi", "n", "y">>, <<"s", "l", "u", "zh", "b", "y">>, <<"S", "l", "u", "zh", "b", "y">>,
     <<"v", "i", "j", "s", "q", "k", "o", "v", "o", "yi">>, <<"V", "i", "j", "s", "q", "k", "o", "v", "o", "yi">>, <<"ch", "a", "s", "t", "y", "n", "y">>, <<"CH", "a", "s", "t", "y", "n", "y">>, <<"v", "z", "v", "o", "d", "u">>, <<"V", "z", "v", "o", "d", "u">>,
     <<"b", "a", "t", "a", "l", "q", "j", "o", "n", "u">>, <<"B", "a", "t", "a", "l", "q", "j", "o", "n", "u">>, <<"r", "o", "t", "y">>, <<"R", "o", "t", "y">>,
     <<"S", "t", "a", "t", "u", "t", "u">>, <<"s", "t", "a", "t", "u", "t", "u">>, <<"U", "k", "a", "z", "u">>, <<"u", "k", "a", "z", "u">>, <<"Z", "a", "k", "o", "n", "u">>, <<"z", "a", "k", "o", "n", "u">>,
     <<"K", "o", "d", "e", "k", "s", "u">>, <<"k", "o", "d", "e", "k", "s", "u">>, <<"P", "o", "l", "o", "zh", "e", "n", "n", "ya">>, <<"p", "o", "l", "o", "zh", "e", "n", "n", "ya">>,
     <<"I", "n", "s", "t", "r", "u", "k", "c", "i", "yi">>, <<"i", "n", "s", "t", "r", "u", "k", "c", "i", "yi">>, <<"n", "a", "k", "a", "z", "u">>, <<"N", "a", "k", "a", "z", "u">>, <<"n", "a", "k", "a", "z", "o", "m">>, <<"N", "a", "k", "a", "z", "o", "m">>,
     <<"r", "a", "p", "o", "r", "t", "u">>, <<"R", "a", "p", "o", "r", "t", "u">>, <<"s", "t", "a", "t", "e", "j">>, <<"S", "t", "a", "t", "e", "j">>, <<"p", "u", "n", "k", "t", "u">>, <<"P", "u", "n", "k", "t", "u">>,
     <<"n", "e", "n", "a", "l", "e", "zh", "i", "i", "e">>, <<"y", "n", "u", "t", "r", "i", "sh", "n", "q", "o", "yi">>, <<"r", "o", "k", "u">>, <<"R", "o", "k", "u">>, <<"ch", "y", "s", "l", "a">>, <<"m", "i", "s", "ya", "c", "ya">>,
     <<"o", "d", "y", "n">>, <<"d", "v", "a">>, <<"t", "r", "y">>, <<"ch", "o", "t", "y", "r", "y">>}
ExcludeLower == {lower(w) : w \in EXCLUDE_WORDS}
RanksLower == {lower(r) : r \in Range(RANKS_LIST)}
Placeholder(word) == StartsWith(word, <<"_", "_", "_">>) /\ EndsWith(word, <<"_", "_", "_">>)

is_pib_anchor(word) ==
    IF Placeholder(word) THEN FALSE
    ELSE IF Len(word) <= 2 THEN FALSE
    ELSE IF lower(word) \in ExcludeLower THEN FALSE
    ELSE IF lower(word) \in RanksLower THEN FALSE
    ELSE IsUpperChar(word[1])

is_likely_surname_by_case(word) ==
    IF Placeholder(word) THEN FALSE
    ELSE IF Len(word) < 3 THEN FALSE
    ELSE LET letters_only == SelectSeq(word, LAMBDA c : c # "-")
         IN  isupper(letters_only) /\ Len(letters_only) >= 3

DeclensionEndings == {<<"o", "m">>, <<"e", "m">>, <<"ye", "m">>, <<"i", "m">>, <<"o", "yu">>, <<"ye", "yu">>, <<"u">>, <<"yu">>, <<"a">>, <<"ya">>, <<"i">>, <<"yi">>}

looks_like_name(word) ==
    LET clean_word == StripRight(word, {",", ".", "!", "?", ";", ":"})
    IN  IF Placeholder(word) THEN FALSE
        ELSE IF Len(clean_word) < 3 THEN FALSE
        ELSE IF clean_word \in EXCLUDE_WORDS \/ lower(clean_word) \in ExcludeLower THEN FALSE
        ELSE IF \E i \in DOMAIN clean_word : IsDigit(clean_word[i]) THEN FALSE
        ELSE IF lower(clean_word) \in Range(RANKS_LIST) THEN FALSE
        ELSE IF lower(clean_word) \in {<<"p", "o">>, <<"p", "r", "o">>, <<"v", "i", "d">>, <<"d", "o">>, <<"z", "a">>, <<"n", "a">>, <<"u">>, <<"v">>, <<"z">>, <<"i", "z">>}
             THEN FALSE
        ELSE IF IsUpperChar(clean_word[1]) /\ islower(Tail(clean_word)) THEN TRUE
        ELSE IF isupper(clean_word) THEN TRUE
        ELSE \E ending \in DeclensionEndings :
                /\ Len(clean_word) > Len(ending) + 2
                /\ isupper(Prefix(clean_word, Len(clean_word) - Len(ending)))
                /\ Suffix(clean_word, Len(ending)) = ending

\* \d{1,2}[.!]\d{1,2}\.\d{4} at position i: the end of the match, or -1
DateLikeEnd(s, i) ==
    LET d1 == Min(RunLen(s, i, DigitSet), 2)
        d2 == Min(RunLen(s, i + d1 + 1, DigitSet), 2)
    IN  IF /\ d1 >= 1 /\ At(s, i + d1) \in {".", "!"}
           /\ d2 >= 1 /\ At(s, i + d1 + 1 + d2) = "."
           /\ RunLen(s, i + d1 + d2 + 2, DigitSet) >= 4
        THEN i + d1 + d2 + 6 ELSE -1
\* \s+року\s+ with IGNORECASE at position i: the end of the match, or -1
YearWordEnd(s, i) ==
    LET w1 == RunLen(s, i, WhiteSpace)
        w2 == RunLen(s, i + w1 + 4, WhiteSpace)
    IN  IF w1 >= 1 /\ lower(Cut(s, i + w1, i + w1 + 4)) = <<"r", "o", "k", "u">> /\ w2 >= 1
        THEN i + w1 + 4 + w2 ELSE -1

clean_line_before_parsing(line) ==
    LET l1 == SubSpans(line, FindIter(line, [i \in Positions(line) |-> DateLikeEnd(line, i)]), << >>)
        l2 == SubSpans(l1, FindIter(l1, [i \in Positions(l1) |-> YearWordEnd(l1, i)]), <<" ">>)
    IN  Strip(CollapseSpaces(l2), WhiteSpace)

\* [A-Za-zА-Яа-яІіЇїЄє] (the two other letters of the class are outside the alphabet)
IdentifierLetters == RangeLetters \cup {"I", "i", "YI", "yi", "YE", "ye"}
\* re.match(r'^[A-Za-zА-Яа-яІіЇїЄєΐё]*\d+[\w\-]*$', last_word)
IdentifierWord(w) ==
    LET p == RunLen(w, 0, IdentifierLetters)
    IN  /\ IsDigit(At(w, p))
        /\ \A i \in p..(Len(w) - 1) : IsWordChar(At(w, i)) \/ At(w, i) = "-"

\* the identifier at the end of the line, or << >> for None
extract_identifier_from_line(line) ==
    LET words == split(line)
    IN  IF words = << >> THEN << >>
        ELSE IF IdentifierWord(words[Len(words)]) THEN normalize_identifier(words[Len(words)])
        ELSE << >>
ServiceTypePhrases == <<<<"m", "e", "d", "y", "ch", "n", "o", "yi", " ", "s", "l", "u", "zh", "b", "y">>, <<"yu", "s", "t", "y", "c", "i", "yi">>>>
StatusPhrases == <<<<"u", " ", "v", "i", "d", "s", "t", "a", "v", "c", "i">>, <<"v", " ", "z", "a", "p", "a", "s", "i">>, <<"u", " ", "z", "a", "p", "a", "s", "i">>, <<"n", "a", " ", "p", "e", "n", "s", "i", "yi">>, <<"v", " ", "r", "e", "z", "e", "r", "v", "i">>, <<"u", " ", "r", "e", "z", "e", "r", "v", "i">>>>
RECURSIVE FirstPhrase(_, _)
\* the first phrase of the list that occurs in s, or << >>
FirstPhrase(phrases, s) ==
    IF phrases = << >> THEN << >>
    ELSE IF ContainsSub(s, Head(phrases)) THEN Head(phrases) ELSE FirstPhrase(Tail(phrases), s)

\* the base rank and the service-type and status words that follow it
extract_base_rank(full_rank_text) ==
    IF full_rank_text = << >> THEN [base |-> full_rank_text, additional |-> << >>]
    ELSE
    With([service \in {FirstPhrase(ServiceTypePhrases, lower(full_rank_text))} |->
    With([si \in {Find(lower(full_rank_text), service)} |->
    With([remaining \in {IF service = << >> THEN full_rank_text
         ELSE Strip(From(full_rank_text, si + Len(service)), WhiteSpace)} |->
    With([status \in {FirstPhrase(StatusPhrases, lower(remaining))} |->
    With([ti \in {Find(lower(remaining), status)} |->
        LET base1 == IF service = << >> THEN full_rank_text
                     ELSE Strip(Cut(full_rank_text, 0, si), WhiteSpace)
            parts1 == IF service = << >> THEN << >>
                      ELSE <<Cut(full_rank_text, si, si + Len(service))>>
            base2 == IF status # << >> /\ parts1 = << >>
                     THEN Strip(Cut(remaining, 0, ti), WhiteSpace) ELSE base1
            parts2 == IF status = << >> THEN parts1
                      ELSE Append(parts1, Cut(remaining, ti, ti + Len(status)))
        IN  [base |-> base2, additional |-> Join(parts2, <<" ">>)]])])])])])

\* re.search(r'\b\d{10}\b|\b\d{9}\b|[А-ЯA-Z]{2}\s*-?\s*\d{6}\b', s)
HasIdentifier(s) ==
    \E i \in Positions(s) :
        \/ DigitsMatchEnd(s, i, 10) >= 0
        \/ DigitsMatchEnd(s, i, 9) >= 0
        \/ /\ IsRangeUpper(At(s, i)) /\ IsRangeUpper(At(s, i + 1))
           /\ LET a == i + 2 + RunLen(s, i + 2, WhiteSpace)
                  b == IF At(s, a) = "-" THEN a + 1 ELSE a
                  c == b + RunLen(s, b, WhiteSpace)
              IN  RunLen(s, c, DigitSet) >= 6 /\ WordBoundary(s, c + 6)

\* re.match(r'^[А-ЯҐЄІЇA-Z\s]+:\s*$', s) for a stripped line
HeaderLine(s) ==
    /\ Len(s) >= 2 /\ s[Len(s)] = ":"
    /\ \A i \in 1..(Len(s) - 1) : IsUpperChar(s[i]) \/ s[i] \in WhiteSpace

RECURSIVE MaxNameRun(_, _, _)
\* the longest run of consecutive words that look like capitalised names
MaxNameRun(words, run, best) ==
    IF words = << >> THEN best
    ELSE LET clean_word == Strip(Head(words), {",", ".", "!", "?", ";", ":"})
             ok == Len(clean_word) > 2 /\ IsUpperChar(clean_word[1]) /\ looks_like_name(clean_word)
         IN  MaxNameRun(Tail(words), IF ok THEN run + 1 ELSE 0, IF ok THEN Max(best, run + 1) ELSE best)

looks_like_pib_line(line) ==
    With([line_clean \in {Strip(line, WhiteSpace)} |->
    With([line_lower \in {lower(line_clean)} |->
    With([has_rank \in {\E rank \in Range(RANKS_LIST) : ContainsSub(normalize_string(line_clean), rank)} |->
        IF Len(line_clean) < 10 THEN FALSE
        ELSE IF StartsWith(line_clean, <<"=", "=", "=">>) \/ StartsWith(line_clean, <<"-", "-", "-">>)
                \/ HeaderLine(line_clean) THEN FALSE
        ELSE IF ~has_rank /\ isupper(line_clean) /\ Len(split(line_clean)) >= 3
                /\ ~HasIdentifier(line_clean) THEN FALSE
        ELSE IF \E start \in {<<"v", "i", "d", "p", "o", "v", "i", "d", "n", "o">>, <<"z", "h", "i", "d", "n", "o">>, <<"n", "a", " ", "p", "i", "d", "s", "t", "a", "v", "i">>} : StartsWith(line_lower, start)
             THEN FALSE
        ELSE IF Len(line_clean) < 100
                /\ \E term \in {<<"s", "t", "a", "t", "u", "t", "u">>, <<"k", "o", "d", "e", "k", "s", "u">>, <<"z", "a", "k", "o", "n", "u">>, <<"u", "k", "a", "z", "u">>} : ContainsSub(line_lower, term)
             THEN FALSE
        ELSE IF has_rank THEN TRUE
        ELSE IF MaxNameRun(split(line_clean), 0, 0) >= 2 THEN TRUE
        ELSE HasIdentifier(line_clean)])])])

\* the words after a rank that belong to it: service type and status
AdditionalWords(words_after) ==
    LET a1 == IF Len(words_after) >= 2 /\ words_after[1] = <<"m", "e", "d", "y", "ch", "n", "o", "yi">> /\ words_after[2] = <<"s", "l", "u", "zh", "b", "y">>
              THEN 2 ELSE 0
        w1 == Items(words_after, a1, Len(words_after))
        a2 == IF w1 # << >> /\ w1[1] = <<"yu", "s", "t", "y", "c", "i", "yi">> THEN 1 ELSE 0
        w2 == Items(w1, a2, Len(w1))
        a3 == IF Len(w2) > 1 /\ w2[1] \in {<<"u">>, <<"v">>, <<"n", "a">>}
                 /\ w2[2] \in {<<"v", "i", "d", "s", "t", "a", "v", "c", "i">>, <<"z", "a", "p", "a", "s", "i">>, <<"p", "e", "n", "s", "i", "yi">>, <<"r", "e", "z", "e", "r", "v", "i">>}
              THEN 2 ELSE 0
    IN  a1 + a2 + a3

\* rank_matches[0] after the sort: the rank form found first in the line, the longest of those
\* at that place; << >> when the line has no rank form
FirstRankMatch(normalized_line) ==
    With([idx \in {[f \in Range(ALL_RANK_FORMS) |-> Find(normalized_line, f \o <<" ">>)]} |->
    With([found \in {{f \in DOMAIN idx : idx[f] >= 0}} |->
        IF found = {} THEN << >>
        ELSE CHOOSE f \in found : \A g \in found :
                idx[f] < idx[g] \/ (idx[f] = idx[g] /\ Len(f) >= Len(g))])])

RECURSIVE FirstAnchor(_, _)
\* index of the first word that is a PIB anchor, or -1
FirstAnchor(parts, i) ==
    IF i >= Len(parts) THEN -1
    ELSE IF is_pib_anchor(parts[i + 1]) THEN i ELSE FirstAnchor(parts, i + 1)

RECURSIVE TakeNames(_)
TakeNames(words) ==
    IF words = << >> \/ ~looks_like_name(Head(words)) THEN << >>
    ELSE <<Head(words)>> \o TakeNames(Tail(words))

\* re.sub(r'^\d+\.\s*', '', rank)
WithoutNumber(rank) ==
    LET d == RunLen(rank, 0, DigitSet)
    IN  IF d >= 1 /\ At(rank, d) = "." THEN From(rank, d + 1 + RunLen(rank, d + 1, WhiteSpace))
        ELSE rank

\* a parser without administrative nouns
NoBadPibWords == {}
BadPibWords == {<<"s", "t", "a", "t", "u", "t">>, <<"n", "a", "k", "a", "z">>, <<"v", "y", "m", "o", "h">>, <<"p", "o", "r", "u", "sh", "e", "n", "n", "ya">>, <<"s", "l", "u", "zh", "b", "y">>, <<"z", "a", "k", "o", "n">>, <<"u", "k", "a", "z">>, <<"k", "o", "d", "e", "k", "s">>, <<"p", "o", "l", "o", "zh", "e", "n", "n", "ya">>}

\* (rank, pib, identifier) of a line; << >> stands for None
parse_hybrid_line(line0) ==
    LET Nothing(id) == [rank |-> << >>, pib |-> << >>, identifier |-> id]
    IN
    IF Strip(line0, WhiteSpace) = << >> THEN Nothing(<< >>) ELSE
    With([cleaned \in {clean_line_before_parsing(Strip(line0, WhiteSpace))} |->
    With([identifier \in {extract_identifier_from_line(cleaned)} |->
    With([line \in {IF identifier # << >>
         THEN Join(Items(split(cleaned), 0, Len(split(cleaned)) - 1), <<" ">>)
         ELSE cleaned} |->
    With([parts0 \in {split(line)} |->
    With([parts \in {IF parts0 # << >> /\ isdigit(parts0[1]) THEN Tail(parts0) ELSE parts0} |->
    IF parts = << >> THEN Nothing(identifier) ELSE
    With([normalized_line \in {normalize_string(line)} |->
    With([found_rank \in {FirstRankMatch(normalized_line)} |->
    With([rank_index \in {Find(normalized_line, found_rank \o <<" ">>)} |->
    With([rank_position \in {Len(split(Cut(normalized_line, 0, rank_index)))} |->
    With([rank_word_count \in {Len(split(found_rank))
         + AdditionalWords(split(From(normalized_line, rank_index + Len(found_rank) + 1)))} |->
    With([rank_words \in {Items(parts0, rank_position, rank_position + rank_word_count)} |->
    With([pib_start_index \in {IF found_rank # << >> THEN rank_position + rank_word_count
         ELSE FirstAnchor(parts, 0)} |->
    IF pib_start_index = -1 THEN Nothing(identifier) ELSE
    With([rank \in {IF found_rank = << >> THEN << >>
         ELSE IF rank_words # << >> THEN Join(rank_words, <<" ">>) ELSE found_rank} |->
    With([pib_words \in {TakeNames(Items(parts, pib_start_index, pib_start_index + 3))} |->
    With([pib \in {Join(pib_words, <<" ">>)} |->
    With([rank_check \in {WithoutNumber(rank)} |->
        IF rank # << >> /\ Len(rank) > 60 THEN Nothing(identifier)
        ELSE IF rank # << >> /\ \E i \in Positions(rank_check) :
                    IsDigit(At(rank_check, i)) /\ IsDigit(At(rank_check, i + 1))
             THEN Nothing(identifier)
        ELSE IF pib # << >> /\ Len(pib_words) < 2 THEN Nothing(identifier)
        ELSE IF pib # << >> /\ \E bad_word \in BadPibWords : ContainsSub(lower(pib), bad_word)
             THEN Nothing(identifier)
        ELSE IF rank # << >> /\ pib = << >> /\ identifier = << >> THEN Nothing(<< >>)
        ELSE [rank |-> rank, pib |-> pib, identifier |-> identifier]])])])])])])])])])])])])])])])])
\* the masked base rank as mask_rank returns it, followed by the trailing words
mask_rank_uninflected(original_text, md, ic) ==
    LET parts == extract_base_rank(original_text)
        info == get_rank_info(parts.base)
        r == mask_rank(IF info = NoRankInfo THEN parts.base ELSE info[1], md, ic)
    IN  IF parts.additional # << >> THEN [r EXCEPT !.ret = @ \o <<" ">> \o parts.additional]
        ELSE r

mask_rank_preserve_case(original_text, md, ic) ==
    With([parts \in {extract_base_rank(original_text)} |->
    With([info \in {get_rank_info(parts.base)} |->
        LET base_rank_text == parts.base
            additional_words == parts.additional
            WithWords(r) == IF additional_words # << >>
                            THEN [r EXCEPT !.ret = @ \o <<" ">> \o additional_words] ELSE r
            base_male_form == info[1]
            detected_case == info[2]
            gender == info[3]
            male_form(masked_base_male) ==
                IF lower(masked_base_male) \in DOMAIN RANK_DECLENSIONS
                THEN RANK_DECLENSIONS[lower(masked_base_male)][detected_case]
                ELSE masked_base_male
            final_rank(masked_base_male) ==
                IF gender = "female" /\ lower(masked_base_male) \in DOMAIN RANK_FEMININE_MAP
                THEN LET masked_base_female == RANK_FEMININE_MAP[lower(masked_base_male)]
                     IN  IF masked_base_female \in DOMAIN RANK_DECLENSIONS_FEMALE
                         THEN RANK_DECLENSIONS_FEMALE[masked_base_female][detected_case]
                         ELSE masked_base_female
                ELSE male_form(masked_base_male)
        IN  With([r \in {mask_rank(IF info = NoRankInfo THEN base_rank_text ELSE base_male_form, md, ic)} |->
                     IF info = NoRankInfo THEN WithWords(r)
                     ELSE With([final \in {final_rank(r.ret)} |->
                              WithWords([r EXCEPT !.ret =
                                            IF final # << >>
                                            THEN _apply_original_case(base_rank_text, final)
                                            ELSE r.ret])])])])])

\* the forms of ALL_RANK_FORMS with a space in them
MultiWordRanks == {r \in Range(ALL_RANK_FORMS) : Contains(r, " ")}

RECURSIVE FormEnd(_, _, _)
\* the end of the words matched from position i with \s+ between them, IGNORECASE; or -1
FormEnd(s, i, words) ==
    IF ~StartsAt(lower(s), i, Head(words)) THEN -1
    ELSE IF Len(words) = 1 THEN i + Len(Head(words))
    ELSE IF RunLen(s, i + Len(Head(words)), WhiteSpace) = 0 THEN -1
    ELSE FormEnd(s, i + Len(Head(words)) + RunLen(s, i + Len(Head(words)), WhiteSpace), Tail(words))

\* (?i)\b(form|form|...)\b at position i: the end of the match of the first (longest) form, or -1
BrokenRankEnd(s, i) ==
    IF ~WordBoundary(s, i) THEN -1
    ELSE
    With([ends \in {[r \in MultiWordRanks |-> FormEnd(s, i, split(r))]} |->
    With([ok \in {{r \in DOMAIN ends : ends[r] >= 0 /\ WordBoundary(s, ends[r])}} |->
        IF ok = {} THEN -1
        ELSE ends[CHOOSE r \in ok : \A q \in ok : Len(r) >= Len(q)]])])

RECURSIVE CollapseSpans(_, _)
CollapseSpans(s, spans) ==
    IF spans = << >> THEN s
    ELSE LET m == spans[Len(spans)]
         IN  CollapseSpans(ReplaceSpan(s, m.start, m.end, CollapseSpaces(Cut(s, m.start, m.end))),
                           SubSeq(spans, 1, Len(spans) - 1))

\* a rank split over a line break is put on one line
normalize_broken_ranks(s) ==
    CollapseSpans(s, FindIter(s, [i \in Positions(s) |-> BrokenRankEnd(s, i)]))

RANK_MASKED == <<"_", "_", "_", "LR", "LA", "LN", "LK", "_", "LM", "LA", "LS", "LK", "LE", "LD", "_", "_", "_">>
PIB_MASKED == <<"_", "_", "_", "LP", "LI", "LB", "_", "LM", "LA", "LS", "LK", "LE", "LD", "_", "_", "_">>
MaxIterations == 10

\* the names of one PIB masked: surname, name, then patronymic
MaskPib(pib, md, ic, fk) ==
    LET parts == split(pib)
        swapped == is_likely_surname_by_case(parts[2])
        surname == IF swapped THEN parts[2] ELSE parts[1]
        name == IF swapped THEN parts[1] ELSE parts[2]
        patronymic == IF Len(parts) >= 3 THEN parts[3] ELSE << >>
        gender == IF patronymic # << >> THEN detect_gender_by_patronymic(patronymic) ELSE ""
    IN
    With([ms \in {mask_surname(surname, md, ic, fk)} |->
    With([mn \in {mask_name(name, gender, patronymic, ms.md, ms.ic, ms.fk)} |->
    With([two \in {IF swapped THEN mn.ret \o <<" ">> \o ms.ret ELSE ms.ret \o <<" ">> \o mn.ret} |->
        IF patronymic # << >>
        THEN With([mp \in {mask_patronymic(patronymic, detect_gender_by_patronymic(patronymic),
                                  mn.md, mn.ic, mn.fk)} |-> [mp EXCEPT !.ret = two \o <<" ">> \o mp.ret]])
        ELSE [mn EXCEPT !.ret = two]])])])

LoopEndsWithoutNames(iteration, pib) == pib = << >>
\* the loop over one line ends when its rounds are used up or no name group is found
LoopEnds(iteration, pib) == iteration >= MaxIterations \/ pib = << >>

RECURSIVE LineLoop(_, _, _, _)
\* the while loop over one line: st = [md, ic, fk]
LineLoop(iteration, current_line_for_parsing, final_line, st) ==
    With([p \in {parse_hybrid_line(current_line_for_parsing)} |->
        IF LoopEnds(iteration, p.pib) THEN [line |-> final_line, st |-> st]
        ELSE
        With([mr \in {IF p.rank # << >> THEN mask_rank_preserve_case(p.rank, st.md, st.ic)
             ELSE [ret |-> << >>, md |-> st.md, ic |-> st.ic]} |->
        With([mp \in {MaskPib(p.pib, mr.md, mr.ic, st.fk)} |->
            LET final1 == IF p.rank # << >> THEN Replace1(final_line, p.rank, mr.ret)
                          ELSE final_line
                current1 == IF p.rank # << >>
                            THEN Replace1(current_line_for_parsing, p.rank, RANK_MASKED)
                            ELSE current_line_for_parsing
            IN  LineLoop(iteration + 1, Replace1(current1, p.pib, PIB_MASKED),
                         Replace1(final1, p.pib, mp.ret),
                         [md |-> mp.md, ic |-> mp.ic, fk |-> mp.fk])])])])

RECURSIVE MaskLines(_, _)
\* the loop over the lines: the masked lines and the store after them
MaskLines(lines, st) ==
    IF lines = << >> THEN [lines |-> << >>, st |-> st]
    ELSE
    With([one \in {IF looks_like_pib_line(Head(lines)) THEN LineLoop(0, Head(lines), Head(lines), st)
         ELSE [line |-> Head(lines), st |-> st]} |->
    With([rest \in {MaskLines(Tail(lines), one.st)} |->
        [lines |-> <<one.line>> \o rest.lines, st |-> rest.st]])])

mask_text_context_aware(s, md, ic, fk) ==
    With([spans \in {MaskSpans(normalize_broken_ranks(s), md, ic)} |->
    With([done \in {MaskLines(SplitLines(spans.text), [md |-> spans.md, ic |-> spans.ic, fk |-> fk])} |->
        [ret |-> Join(done.lines, <<"\n">>), md |-> done.st.md, ic |-> done.st.ic,
         fk |-> done.st.fk]])])
-----------------------------------------------------------------------------
(* unmask_data.py: the reverse engine *)

\* unmask_data._apply_original_case
_apply_original_case_unmask(original, masked) ==
    IF original = << >> \/ masked = << >> THEN masked
    ELSE IF isupper(original) THEN upper(masked)
    ELSE IF Len(original) > 1 /\ IsUpperChar(original[1]) /\ islower(Tail(original))
         THEN capitalize(masked)
    ELSE lower(masked)

\* the keys of "mappings" in the order main() creates them
CategoryOrder == <<"ipn", "passport_id", "military_id", "surname", "name", "military_unit",
                   "order_number", "order_number_with_letters", "br_number", "br_number_slash",
                   "br_number_complex", "rank", "brigade_number", "date", "patronymic">>

RECURSIVE KeysInOrder(_, _, _)
\* the <<category, original>> keys of the categories cats, as the nested loops meet them
KeysInOrder(md, cats, k) ==
    IF k > Len(CategoryOrder) THEN << >>
    ELSE (IF CategoryOrder[k] \in cats
          THEN SelectSeq(md.order, LAMBDA p : p[1] = CategoryOrder[k]) ELSE << >>)
         \o KeysInOrder(md, cats, k + 1)

RECURSIVE BuildMap(_, _, _)
BuildMap(md, keys, acc) ==
    IF keys = << >> THEN acc
    ELSE LET original == Head(keys)[2]
             rec == md.mappings[Head(keys)[1]][original]
             masked_value == rec.masked_as
             known == masked_value \in DOMAIN acc.map
             old == IF known THEN acc.map[masked_value] ELSE EmptyFcn
             new == [n \in (DOMAIN old) \cup Range(rec.instances) |->
                        IF n \in Range(rec.instances) THEN original ELSE old[n]]
         IN  BuildMap(md, Tail(keys),
                      [keys |-> IF known THEN acc.keys ELSE Append(acc.keys, masked_value),
                       map |-> Extend(acc.map, masked_value, new)])

\* the instance map of the rank records alone
build_instance_map_ranks(md, cats) ==
    BuildMap(md, KeysInOrder(md, cats \cap {"rank"}, 1), [keys |-> << >>, map |-> EmptyFcn])

\* masked value -> instance number -> original, and the masked values in insertion order
build_instance_map(md, cats) ==
    BuildMap(md, KeysInOrder(md, cats, 1), [keys |-> << >>, map |-> EmptyFcn])

\* (?<!\w)pattern(?!\w) with IGNORECASE at position i: the end of the match, or -1
OccurrenceEnd(s, i, pattern) ==
    IF /\ ~IsWordChar(At(s, i - 1))
       /\ i + Len(pattern) <= Len(s) /\ lower(Cut(s, i, i + Len(pattern))) = lower(pattern)
       /\ ~IsWordChar(At(s, i + Len(pattern)))
    THEN i + Len(pattern) ELSE -1

find_all_occurrences(s, pattern) ==
    FindIter(s, [i \in Positions(s) |-> OccurrenceEnd(s, i, pattern)])

is_real_mask(value, all_masked_values) == lower(value) \in all_masked_values

\* \bform\b with IGNORECASE at position i: the end of the match, or -1
RankFormEnd(s, i, form) ==
    IF /\ WordBoundary(s, i)
       /\ i + Len(form) <= Len(s) /\ lower(Cut(s, i, i + Len(form))) = lower(form)
       /\ WordBoundary(s, i + Len(form))
    THEN i + Len(form) ELSE -1

RankMatches(s, form) == FindIter(s, [i \in Positions(s) |-> RankFormEnd(s, i, form)])

RECURSIVE FoundByForms(_, _, _)
\* the matches of the forms forms[k..], form by form
FoundByForms(s, forms, k) ==
    IF k > Len(forms) THEN << >>
    ELSE LET ms == RankMatches(s, forms[k])
         IN  [j \in DOMAIN ms |-> [start |-> ms[j].start, end |-> ms[j].end,
                                   text |-> Cut(s, ms[j].start, ms[j].end), simple |-> FALSE]]
             \o FoundByForms(s, forms, k + 1)

\* step 1.A: the matches of every form of ALL_RANK_FORMS; a form that matches nowhere adds nothing
FoundByAllForms(s) ==
    FoundByForms(s, SelectSeq(ALL_RANK_FORMS,
                              LAMBDA form : \E i \in Positions(s) : RankFormEnd(s, i, form) # -1), 1)

RECURSIVE AddFallback(_, _, _)
AddFallback(s, ms, found) ==
    IF ms = << >> THEN found
    ELSE LET m == Head(ms)
             overlaps == \E j \in DOMAIN found : m.start < found[j].end /\ m.end > found[j].start
         IN  AddFallback(s, Tail(ms),
                         IF overlaps THEN found
                         ELSE Append(found, [start |-> m.start, end |-> m.end,
                                             text |-> Cut(s, m.start, m.end), simple |-> TRUE]))

RECURSIVE FoundByMasks(_, _, _)
\* step 1.B: the matches of the masked ranks, taken in the order masks, that overlap nothing found
FoundByMasks(s, masks, found) ==
    IF masks = << >> THEN found
    ELSE FoundByMasks(s, Tail(masks), AddFallback(s, RankMatches(s, Head(masks)), found))

RECURSIVE SortByStart(_)
\* list.sort(key=start): ascending and stable
SortByStart(items) ==
    IF items = << >> THEN << >>
    ELSE LET m == CHOOSE j \in DOMAIN items :
                    \A k \in DOMAIN items :
                        \/ items[k].start > items[j].start
                        \/ items[k].start = items[j].start /\ j <= k
         IN  <<items[m]>>
             \o SortByStart([k \in 1..(Len(items) - 1) |-> IF k < m THEN items[k] ELSE items[k + 1]])
\* counters.setdefault(key, 0); counters[key] += 1
Bump(counters, key) == Extend(counters, key, (IF key \in DOMAIN counters THEN counters[key] ELSE 0) + 1)
\* a variant that does not count
Uncounted(stats) == stats
Restored(stats) == [stats EXCEPT !.restored_count = @ + 1]
Skipped(stats) == [stats EXCEPT !.skipped_count = @ + 1]
WithAdditional(rank, additional_words) ==
    IF additional_words # << >> THEN rank \o <<" ">> \o additional_words ELSE rank

\* the original base rank put into the case and gender of the rank found in the text
ReconstructedForm(original_base_form, case, gender) ==
    IF gender = "female"
    THEN (IF original_base_form \in DOMAIN RANK_FEMININE_MAP
             /\ RANK_FEMININE_MAP[original_base_form] \in DOMAIN RANK_DECLENSIONS_FEMALE
          THEN RANK_DECLENSIONS_FEMALE[RANK_FEMININE_MAP[original_base_form]][case]
          ELSE original_base_form)
    ELSE (IF original_base_form \in DOMAIN RANK_DECLENSIONS
          THEN RANK_DECLENSIONS[original_base_form][case]
          ELSE original_base_form)

\* step 2 for one rank found: acc = [replacements, counters, stats]
RestoreRank(found, imap, all_masked_ranks, acc) ==
    With([parts \in {extract_base_rank(found.text)} |->
    With([info \in {get_rank_info(parts.base)} |->
    With([masked_key \in {IF found.simple THEN lower(parts.base) ELSE info[1]} |->
    With([counted \in {Bump(acc.counters, masked_key)} |->
        LET instance_num == counted[masked_key]
            hit == masked_key \in DOMAIN imap.map /\ instance_num \in DOMAIN imap.map[masked_key]
            original_rank == imap.map[masked_key][instance_num]
            form == IF found.simple THEN _apply_original_case_unmask(parts.base, original_rank)
                    ELSE _apply_original_case_unmask(parts.base,
                                              ReconstructedForm(original_rank, info[2], info[3]))
        IN  IF ~found.simple /\ info = NoRankInfo THEN acc
            ELSE IF hit /\ is_real_mask(masked_key, all_masked_ranks)
            THEN [replacements |-> Append(acc.replacements,
                                          [start |-> found.start, end |-> found.end,
                                           new |-> WithAdditional(form, parts.additional)]),
                  counters |-> counted, stats |-> Restored(acc.stats)]
            ELSE [replacements |-> acc.replacements, counters |-> counted,
                  stats |-> Skipped(acc.stats)]])])])])

RECURSIVE RestoreRanks(_, _, _, _)
RestoreRanks(found, imap, all_masked_ranks, acc) ==
    IF found = << >> THEN acc
    ELSE RestoreRanks(Tail(found), imap, all_masked_ranks,
                      RestoreRank(Head(found), imap, all_masked_ranks, acc))

RECURSIVE ApplyReplacements(_, _)
\* restored_text = restored_text[:start] + original + restored_text[end:], one by one
ApplyReplacements(s, replacements) ==
    IF replacements = << >> THEN s
    ELSE ApplyReplacements(ReplaceSpan(s, Head(replacements).start, Head(replacements).end,
                                       Head(replacements).new),
                           Tail(replacements))

AllMaskedRanks(md) == {lower(md.mappings["rank"][o].masked_as) : o \in DOMAIN md.mappings["rank"]}

\* steps 1 and 2: the replacements scheduled, the counters and the statistics
ScheduledRanks(txt, md, masks) ==
    LET rank_instance_map == build_instance_map(md, {"rank"})
        all_found_ranks == SortByStart(FoundByMasks(txt, masks, FoundByAllForms(txt)))
    IN  RestoreRanks(all_found_ranks, rank_instance_map, AllMaskedRanks(md),
                     [replacements |-> << >>, counters |-> EmptyFcn, stats |-> NoStats])

\* masks: the masked ranks in the order the set all_masked_ranks is iterated
unmask_ranks_gender_aware(txt, md, masks) ==
    With([done \in {ScheduledRanks(txt, md, masks)} |->
        [text |-> ApplyReplacements(txt, SortByStartDescending(done.replacements)),
         stats |-> done.stats]])

RECURSIVE Enumerate(_, _, _, _, _)
\* the occurrences of one masked value numbered from 1: acc = [replacements, stats]
Enumerate(occurrences, instance_num, instance_to_original, masked_value, acc) ==
    IF occurrences = << >> THEN acc
    ELSE Enumerate(Tail(occurrences), instance_num + 1, instance_to_original, masked_value,
                   IF instance_num \in DOMAIN instance_to_original
                   THEN [replacements |-> Append(acc.replacements,
                                                 [start |-> Head(occurrences).start,
                                                  end |-> Head(occurrences).end,
                                                  original_value |-> instance_to_original[instance_num],
                                                  masked_value |-> masked_value]),
                         stats |-> Restored(acc.stats)]
                   ELSE [replacements |-> acc.replacements, stats |-> Skipped(acc.stats)])

RECURSIVE CollectOthers(_, _, _, _)
CollectOthers(s, keys, imap, acc) ==
    IF keys = << >> THEN acc
    ELSE CollectOthers(s, Tail(keys), imap,
                       Enumerate(find_all_occurrences(s, Head(keys)), 1, imap.map[Head(keys)],
                                 Head(keys), acc))

RECURSIVE ApplyOthers(_, _)
\* a replacement is made when the masked value still stands at its place
ApplyOthers(s, replacements) ==
    IF replacements = << >> THEN s
    ELSE LET r == Head(replacements)
             masked_segment == Cut(s, r.start, r.end)
         IN  ApplyOthers(IF lower(masked_segment) = lower(r.masked_value)
                         THEN ReplaceSpan(s, r.start, r.end,
                                          _apply_original_case_unmask(masked_segment, r.original_value))
                         ELSE s,
                         Tail(replacements))

\* the replacements scheduled for the masked values of all categories but the ranks
ScheduledOthers(txt, md) ==
    LET instance_map == build_instance_map(md, Categories \ {"rank"})
    IN  CollectOthers(txt, instance_map.keys, instance_map,
                      [replacements |-> << >>, stats |-> NoStats])

unmask_other_data(txt, md) ==
    LET done == ScheduledOthers(txt, md)
    IN  [text |-> ApplyOthers(txt, SortByStartDescending(done.replacements)),
         stats |-> done.stats]

unmask_text_v2(txt, md, map_version, masks) ==
    IF map_version = "v2.1"
    THEN
    With([ranks \in {unmask_ranks_gender_aware(txt, md, masks)} |->
    With([others \in {unmask_other_data(ranks.text, md)} |->
        [text |-> others.text,
         stats |-> [restored_count |-> ranks.stats.restored_count + others.stats.restored_count,
                    skipped_count |-> ranks.stats.skipped_count + others.stats.skipped_count]]])])
    ELSE unmask_other_data(txt, md)
-----------------------------------------------------------------------------
(* The text pipeline: main() of data_masking.py, then main() of unmask_data.py *)

TextInputs ==
    { <<"la", "lb", "-", "1", "2", "3", "4", "5", "6">>,
      <<"0", "5", ".", "0", "3", ".", "2", "0", "2", "4", " ", "1", "9", ".", "0", "3", ".", "2", "0", "2", "4">>,
      <<"s", "o", "l", "d", "a", "t", " ", "P", "e", "t", "r", "e", "n", "k", "o", " ", "I", "v", "a", "n", " ", "I", "v", "a", "n", "o", "v", "y", "ch", " ", "1", "2", "3", "4", "5", "6", "7", "8", "9", "0">>,
      <<"m", "a", "j", "o", "r", " ", "K", "o", "v", "a", "l", "q", " ", "H", "r", "y", "h", "o", "r", "i", "j", " ", "i", " ", "m", "a", "j", "o", "r", " ", "K", "o", "v", "a", "l", "q", " ", "H", "e", "r", "m", "a", "n">>,
      <<"1", ".", " ", "s", "t", "a", "r", "sh", "y", "j", " ", "s", "o", "l", "d", "a", "t", " ", "P", "e", "t", "r", "e", "n", "k", "o", " ", "I", "v", "a", "n", " ", "I", "v", "a", "n", "o", "v", "y", "ch">>,
      <<"#", " ", "1", "2", "/", "3", "4", "/", "5", "6", " ", "v", "i", "d", " ", "1", "5", ".", "0", "3", ".", "2", "0", "2", "4">> }

\* the orders in which a set can be iterated
Orders(S) == {q \in [1..Cardinality(S) -> S] : \A x \in S : \E i \in DOMAIN q : q[i] = x}

\* a fresh process that is given one text to mask
InitText ==
    /\ InitRun
    /\ pc = "mask"
    /\ text \in {t \in TextInputs : Len(t) <= MaxTextLen}
    /\ masked_text = << >>
    /\ restored_text = << >>
    /\ unmask_stats = NoStats

\* masked_text = mask_text_context_aware(text, masking_dict, instance_counters)
MaskText ==
    /\ pc = "mask"
    /\ \E masked_result \in {mask_text_context_aware(text, masking_dict, instance_counters,
                                                     fake_state)} :
           /\ masked_text' = masked_result.ret
           /\ masking_dict' = masked_result.md
           /\ instance_counters' = masked_result.ic
           /\ fake_state' = masked_result.fk
           /\ first_masked' = RecordFirst(masked_result.md)
    /\ pc' = "unmask"
    /\ UNCHANGED <<HASH_ALGORITHM, last, ncalls, nruns, text, restored_text, unmask_stats>>

\* restored_text, stats = unmask_text_v2(masked_text, masking_dict, "v2.1")
UnmaskText ==
    /\ pc = "unmask"
    /\ \E masks \in Orders(AllMaskedRanks(masking_dict)) :
          \E unmasked_result \in {unmask_text_v2(masked_text, masking_dict, "v2.1", masks)} :
              /\ restored_text' = unmasked_result.text
              /\ unmask_stats' = unmasked_result.stats
    /\ pc' = "done"
    /\ UNCHANGED <<HASH_ALGORITHM, masking_dict, instance_counters, fake_state, last, ncalls,
                   nruns, first_masked, text, masked_text>>

NextText == MaskText \/ UnmaskText
SpecText == InitText /\ [][NextText]_vars
-----------------------------------------------------------------------------
(* Properties of the text pipeline *)

MaskedAs(c, o) == masking_dict.mappings[c][o].masked_as
\* no two distinct originals were recorded with the same masked value
NoCollision ==
    \A p \in AllKeys(masking_dict), q \in AllKeys(masking_dict) :
        p # q => lower(MaskedAs(p[1], p[2])) # lower(MaskedAs(q[1], q[2]))
\* no masked value occurs in the input text
NoMaskInInput ==
    \A p \in AllKeys(masking_dict) : ~ContainsSub(lower(text), lower(MaskedAs(p[1], p[2])))

\* C1: a text masked from an empty store and unmasked with the mapping that masking produced
\* (v2.1 logic) comes back exactly, when no two distinct originals share a masked value and no
\* masked value occurs in the input text
C1_RoundTrip ==
    (pc = "done" /\ NoCollision /\ NoMaskInInput) => restored_text = text

\* the originals of category c that were masked to the value of original o
Colliding(c, o) == {q \in DOMAIN masking_dict.mappings[c] : MaskedAs(c, q) = MaskedAs(c, o)}
\* the places of the originals of G in the input text
SourceOccurrences(G) ==
    UNION {{[start |-> m.start, original |-> q] : m \in Range(find_all_occurrences(text, q))} : q \in G}
\* the number of instances that masking recorded for the originals of G
InstanceCount(c, G) ==
    Cardinality(UNION {Range(masking_dict.mappings[c][q].instances) : q \in G})
\* the left-to-right index of the occurrence x among the occurrences S
OccurrenceIndex(x, S) == 1 + Cardinality({y \in S : y.start < x.start})

\* C2: when distinct originals of one category are masked to the same value, the instance number
\* that masking gave to an occurrence is its left-to-right index among the occurrences of that
\* value, the index by which unmasking looks the original up; so every original is restored at
\* its own place
C2_CollisionOrdering ==
    pc # "mask" =>
        \A c \in Categories : \A o \in DOMAIN masking_dict.mappings[c] :
            LET S == SourceOccurrences(Colliding(c, o))
            IN  (Cardinality(Colliding(c, o)) > 1 /\ Cardinality(S) = InstanceCount(c, Colliding(c, o)))
                => /\ \A x \in S :
                        OccurrenceIndex(x, S) \in Range(masking_dict.mappings[c][x.original].instances)
                   /\ (pc = "done" /\ Len(restored_text) = Len(text))
                        => \A x \in S : lower(Cut(restored_text, x.start, x.start + Len(x.original)))
                                        = lower(x.original)
-----------------------------------------------------------------------------
(* Ranks: service category *)

\* the nominative base form of a rank form, lower-cased
NominativeOf(rank) ==
    IF get_rank_info(rank)[1] # "" THEN lower(get_rank_info(rank)[1]) ELSE lower(rank)

\* the service categories whose hierarchy holds the base form of a rank
CategoriesOf(rank) ==
    {c \in Range(RankCategories) :
        \E i \in DOMAIN Hierarchy(c) : lower(Hierarchy(c)[i]) = NominativeOf(rank)}

\* C11: a rank that mask_rank masked belongs to a service-category hierarchy (army, naval,
\* legal, medical) the original rank belongs to: a legal, medical or naval rank is never
\* replaced by a rank name that is absent from that category's hierarchy.
C11_SameServiceCategory ==
    (last.op = "mask_rank" /\ CategoriesOf(last.arg) # {}) =>
        CategoriesOf(last.arg) \cap CategoriesOf(last.ret) # {}
-----------------------------------------------------------------------------
(* Case styles of the name generators *)

\* bound of the model: calls in a run of SpecCase (a first encounter and a repeat)
MaxCaseCalls == 2

CaseRanks == {<<"K", "A", "P", "I", "T", "A", "N">>, <<"K", "a", "p", "i", "t", "a", "n">>, <<"k", "a", "p", "i", "t", "a", "n">>, <<"S", "T", "A", "R", "SH", "Y", "J", " ", "S", "O", "L", "D", "A", "T">>, <<"S", "t", "a", "r", "sh", "y", "j", " ", "S", "o", "l", "d", "a", "t">>, <<"s", "t", "a", "r", "sh", "y", "j", " ", "s", "o", "l", "d", "a", "t">>}
CaseSurnames == {<<"SH", "E", "V", "CH", "E", "N", "K", "O">>, <<"SH", "e", "v", "ch", "e", "n", "k", "o">>, <<"sh", "e", "v", "ch", "e", "n", "k", "o">>, <<"H", "U", "K">>, <<"H", "u", "k">>, <<"h", "u", "k">>}
CaseNames == {<<<<"I", "V", "A", "N">>, "">>, <<<<"I", "v", "a", "n">>, "">>, <<<<"i", "v", "a", "n">>, "">>}
CasePatronymics == {<<<<"I", "V", "A", "N", "O", "V", "Y", "CH">>, "male">>, <<<<"I", "v", "a", "n", "o", "v", "y", "ch">>, "male">>, <<<<"i", "v", "a", "n", "o", "v", "y", "ch">>, "male">>}

CaseMaskRank == ncalls < MaxCaseCalls /\ CallMaskRank(CaseRanks)
CaseMaskSurname == ncalls < MaxCaseCalls /\ CallMaskSurname(CaseSurnames)
CaseMaskName == ncalls < MaxCaseCalls /\ CallMaskName(CaseNames, {<< >>})
CaseMaskPatronymic == ncalls < MaxCaseCalls /\ CallMaskPatronymic(CasePatronymics)
NextCase == CaseMaskRank \/ CaseMaskSurname \/ CaseMaskName \/ CaseMaskPatronymic
\* first encounters and repeats of names written in the three case styles
SpecCase == Init /\ [][NextCase]_vars

\* the value is written in the case style of the original
SameCaseStyle(original, value) ==
    /\ isupper(original) => isupper(value)
    /\ islower(original) => islower(value)
    /\ (IsUpperChar(original[1]) /\ original = capitalize(original)) =>
           (IsUpperChar(value[1]) /\ value = capitalize(value))
    /\ (AllWordsTitle(original) /\ original = title(original)) =>
           (IsUpperChar(value[1]) /\ value = title(value))

\* C12: mask_rank, mask_surname, mask_name and mask_patronymic return a value in the case style
\* of the original (all upper; first letter upper and the rest lower, or every word capitalised
\* for a multi-word Title Case rank; all lower), on a first encounter and on a repeat, for
\* surnames of any length.
C12_CaseStylePreserved ==
    (last.op \in {"mask_rank", "mask_surname", "mask_name", "mask_patronymic"} /\ last.ret # << >>)
        => SameCaseStyle(last.arg, last.ret)

-----------------------------------------------------------------------------
(* _apply_original_case as a function of its two arguments *)

\* originals and masked values in every case style: empty, one letter, all upper, capitalised,
\* all lower, irregular, several words, with digits and punctuation
CaseArgs ==
    {<< >>, <<"YA">>, <<"ya">>, <<"H", "U", "K">>, <<"H", "u", "k">>, <<"h", "u", "k">>,
     <<"h", "U", "k">>, <<"H", "u", "K">>, <<"S", "t", "a", "r", " ", "S", "o", "l">>,
     <<"B", "R", "-", "1">>, <<"1", "2">>, <<"A", "1">>}

ApplyOriginalCase ==
    \E original \in CaseArgs, masked \in CaseArgs :
        /\ pc = "calls"
        /\ last' = [op |-> "_apply_original_case", category |-> "data_masking", arg |-> original,
                    gender |-> "", supplied |-> masked,
                    ret |-> _apply_original_case(original, masked)]
        /\ UNCHANGED <<HASH_ALGORITHM, masking_dict, instance_counters, fake_state, ncalls, nruns,
                       first_masked, text, masked_text, restored_text, unmask_stats, pc>>
ApplyOriginalCaseUnmask ==
    \E original \in CaseArgs, masked \in CaseArgs :
        /\ pc = "calls"
        /\ last' = [op |-> "_apply_original_case", category |-> "unmask_data", arg |-> original,
                    gender |-> "", supplied |-> masked,
                    ret |-> _apply_original_case_unmask(original, masked)]
        /\ UNCHANGED <<HASH_ALGORITHM, masking_dict, instance_counters, fake_state, ncalls, nruns,
                       first_masked, text, masked_text, restored_text, unmask_stats, pc>>
NextApplyCase == ApplyOriginalCase \/ ApplyOriginalCaseUnmask
SpecApplyCase == Init /\ [][NextApplyCase]_vars

\* the letters of s: some letter is upper case and none is lower case
AllUpperCase(s) == \E i \in DOMAIN s : IsUpperChar(s[i]) /\ \A j \in DOMAIN s : ~IsLowerChar(s[j])
\* the first character of s is an upper-case letter and the rest holds lower-case letters only
FirstUpperRestLower(s) ==
    /\ Len(s) > 1
    /\ IsUpperChar(s[1])
    /\ \E i \in 2..Len(s) : IsLowerChar(s[i])
    /\ \A i \in 2..Len(s) : ~IsUpperChar(s[i])
\* masked with every letter in the given case
Cased(masked, Upper(_)) ==
    [i \in DOMAIN masked |-> IF Upper(i) THEN UpperChar(masked[i]) ELSE LowerChar(masked[i])]

\* C13: _apply_original_case(original, masked), in data_masking and in unmask_data, returns
\* masked unchanged when either argument is empty; masked in upper case when original is all
\* upper case (a single upper-case letter included); masked with its first letter upper and the
\* rest lower when original is longer than one character with its first letter upper and the
\* rest lower; masked in lower case in every other case (mixed or irregular casing).
C13_ApplyOriginalCase ==
    last.op = "_apply_original_case" =>
        IF last.arg = << >> \/ last.supplied = << >> THEN last.ret = last.supplied
        ELSE IF AllUpperCase(last.arg) THEN last.ret = Cased(last.supplied, LAMBDA i : TRUE)
        ELSE IF FirstUpperRestLower(last.arg)
             THEN last.ret = Cased(last.supplied, LAMBDA i : i = 1)
        ELSE last.ret = Cased(last.supplied, LAMBDA i : FALSE)
\* an original in irregular casing has lower-cased a masked value that was not lower case
C13_Witness ==
    /\ last.op = "_apply_original_case"
    /\ last.arg = <<"H", "u", "K">>
    /\ last.supplied = <<"H", "U", "K">>
    /\ last.ret = <<"h", "u", "k">>

-----------------------------------------------------------------------------
(* Malformed input of the category generators *)

MaxMalformedCalls == 2
\* inputs outside the shape of the category: the empty string, a wrong length, a wrong
\* character class, a date that is not a calendar date, a word that is no rank
MalformedInputs ==
    [mask_ipn |-> {<< >>, <<"1","2","3","4","5">>, <<"1","2","3","4","5","a","7","8","9","0">>},
     mask_passport_id |-> {<< >>, <<"9","8","7">>, <<"9","8","7","6","5","4","3","2","a">>},
     mask_military_id |-> {<< >>, <<"LA","LB","1","2","3">>, <<"a","b","v">>},
     mask_military_unit |-> {<< >>, <<"LA","1","2">>, <<"1","2","3","4">>},
     mask_date |-> {<< >>, <<"3","1",".","0","2",".","2","0","2","4">>, <<"a","b","v">>},
     mask_brigade_number |-> {<< >>, <<"b","r","y","h","a","d","y">>, <<"a","b","v">>},
     mask_order_number |-> {<< >>, <<"a","b","v">>, <<"#">>},
     mask_br_number |-> {<< >>, <<"a","b","v">>, <<"B","R">>},
     mask_surname |-> {<< >>, <<"1","2","3">>, <<"!","!">>},
     mask_name |-> {<< >>, <<"1","2","3">>, <<"!","!">>},
     mask_patronymic |-> {<< >>, <<"1","2","3">>, <<"!","!">>},
     mask_rank |-> {<< >>, <<"a","b","v">>, <<"k","o","m","a","n","d","y","r">>}]

MalformedIpn == ncalls < MaxMalformedCalls /\ CallMaskIpn(MalformedInputs.mask_ipn)
MalformedPassportId ==
    ncalls < MaxMalformedCalls /\ CallMaskPassportId(MalformedInputs.mask_passport_id)
MalformedMilitaryId ==
    ncalls < MaxMalformedCalls /\ CallMaskMilitaryId(MalformedInputs.mask_military_id)
MalformedMilitaryUnit ==
    ncalls < MaxMalformedCalls /\ CallMaskMilitaryUnit(MalformedInputs.mask_military_unit)
MalformedDate == ncalls < MaxMalformedCalls /\ CallMaskDate(MalformedInputs.mask_date)
MalformedBrigadeNumber ==
    ncalls < MaxMalformedCalls /\ CallMaskBrigadeNumber(MalformedInputs.mask_brigade_number)
MalformedOrderNumber ==
    ncalls < MaxMalformedCalls /\ CallMaskOrderNumber(MalformedInputs.mask_order_number)
MalformedBrNumber == ncalls < MaxMalformedCalls /\ CallMaskBrNumber(MalformedInputs.mask_br_number)
MalformedSurname == ncalls < MaxMalformedCalls /\ CallMaskSurname(MalformedInputs.mask_surname)
MalformedName ==
    ncalls < MaxMalformedCalls
    /\ CallMaskName({<<n, "">> : n \in MalformedInputs.mask_name}, {<< >>})
MalformedPatronymic ==
    ncalls < MaxMalformedCalls
    /\ CallMaskPatronymic({<<n, "male">> : n \in MalformedInputs.mask_patronymic})
MalformedRank == ncalls < MaxMalformedCalls /\ CallMaskRank(MalformedInputs.mask_rank)
NextMalformed ==
    \/ MalformedIpn \/ MalformedPassportId \/ MalformedMilitaryId \/ MalformedMilitaryUnit
    \/ MalformedDate \/ MalformedBrigadeNumber \/ MalformedOrderNumber \/ MalformedBrNumber
    \/ MalformedSurname \/ MalformedName \/ MalformedPatronymic \/ MalformedRank
SpecMalformed == Init /\ [][NextMalformed]_vars

\* C14: a category generator called with an input that does not match the shape of its category
\* (wrong length, wrong character class, unrecognised rank, empty string) returns the input
\* unchanged, raises no exception, and leaves the mapping store and the instance counters as
\* they were.
C14_MalformedPassThrough ==
    [][(IsCallStep /\ last'.op \in DOMAIN MalformedInputs
            /\ last'.arg \in MalformedInputs[last'.op])
        => (/\ last'.ret = last'.arg
            /\ masking_dict' = masking_dict
            /\ instance_counters' = instance_counters)]_vars

-----------------------------------------------------------------------------
(* Spans of mask_text_context_aware *)

\* texts of numbers, identifiers and dates, next to legal citations and next to each other
SpanTexts ==
    {<<"p", "u", "n", "k", "t", "u", " ", "1", "2", " ", "o", "m", "b", "r">>,
     <<"p", "u", "n", "k", "t", "u", " ", "1", "5", ".", "0", "3", ".", "2", "0", "2", "4">>,
     <<"p", "u", "n", "k", "t", "u", " ", "1", "2", "3", "4", "5", "6", "7", "8", "9", "0">>,
     <<"r", "o", "z", "d", "i", "l", "u", " ", "1", "2", "3", "4", "5", "6", "7", "8", "9">>,
     <<"s", "t", "a", "t", "e", "j", " ", "5", ",", " ", "7", " ", "#", " ", "1", "2">>,
     <<"ch", "a", "s", "t", "y", "n", "y", " ", "3", " ", "A", "1", "2", "3", "4">>,
     <<"#", " ", "4", "5", " ", "v", "i", "d", " ", "1", "5", ".", "0", "3", ".", "2", "0", "2", "4">>,
     <<"A", "B", "-", "1", "2", "3", "4", "5", "6", " ", "i", " ", "1", "2", " ", "o", "m", "b", "r">>,
     <<"p", "u", "n", "k", "t", "u", " ", "2", " ", "B", "R", "-", "7", "7", "p">>,
     <<"1", "5", ".", "0", "3", ".", "2", "0", "2", "4", " ", "1", "6", ".", "0", "3", ".", "2", "0", "2", "4">>,
     <<"s", "t", "a", "t", "t", "i", " ", "1", "2", "3", "4", "5", "6", "7", "8", "9", "0">>}

InitSpans ==
    /\ InitRun
    /\ pc = "mask"
    /\ text \in SpanTexts
    /\ masked_text = << >>
    /\ restored_text = << >>
    /\ unmask_stats = NoStats
\* one text of SpanTexts masked and unmasked
SpecSpans == InitSpans /\ [][NextText]_vars

\* the literals of the skip spans of s, from left to right
RECURSIVE SkipLiterals(_, _)
SkipLiterals(s, skips) ==
    IF skips = {} THEN << >>
    ELSE LET k == CHOOSE k \in skips : \A j \in skips : k.start <= j.start
         IN  <<Cut(s, k.start, k.end)>> \o SkipLiterals(s, skips \ {k})

\* C15: no character inside a skip span (a numeral after a legal-citation word) is changed by
\* mask_text_context_aware, and every candidate span whose character range overlaps a skip
\* span is dropped: no item of items_to_mask overlaps an item of items_to_skip, and the
\* numerals that follow the citation words of the masked text are those of the input.
C15_SkipSpansNeverMasked ==
    pc # "mask" =>
        /\ \A k \in items_to_skip(normalize_broken_ranks(text)) :
               \A j \in DOMAIN items_to_mask(normalize_broken_ranks(text)) :
                   ~Overlaps(items_to_mask(normalize_broken_ranks(text))[j], k)
        /\ SkipLiterals(masked_text, items_to_skip(masked_text))
               = SkipLiterals(normalize_broken_ranks(text),
                              items_to_skip(normalize_broken_ranks(text)))

-----------------------------------------------------------------------------
(* Unmasking a text that holds more occurrences than the mapping has instances *)

MaxQuotes == 1
MissingTexts ==
    {<<"1", "2", "3", "4", "5", "6", "7", "8", "9", "0">>,
     <<"0", "5", ".", "0", "3", ".", "2", "0", "2", "4", " ", "1", "9", ".", "0", "3", ".", "2", "0", "2", "4">>,
     <<"#", " ", "4", "5", " ", "v", "i", "d", " ", "1", "5", ".", "0", "3", ".", "2", "0", "2", "4">>,
     <<"A", "B", "-", "1", "2", "3", "4", "5", "6", " ", "i", " ", "1", "2", " ", "o", "m", "b", "r">>,
     <<"s", "o", "l", "d", "a", "t", " ", "P", "e", "t", "r", "e", "n", "k", "o", " ", "I", "v", "a", "n", " ", "I", "v", "a", "n", "o", "v", "y", "ch">>,
     <<"m", "a", "j", "o", "r", " ", "K", "o", "v", "a", "l", "q", " ", "H", "r", "y", "h", "o", "r", "i", "j">>,
     <<"A", "1", "2", "3", "4", " ", "t", "a", " ", "1", "2", "3", "4", "5", "6", "7", "8", "9">>}

InitMissing ==
    /\ InitRun
    /\ pc = "mask"
    /\ text \in MissingTexts
    /\ masked_text = << >>
    /\ restored_text = << >>
    /\ unmask_stats = NoStats
\* the masked document is edited before it is unmasked: its text is quoted once more on a new
\* line, so every masked value occurs again with an instance number the mapping does not hold
QuoteAgain ==
    /\ pc = "unmask"
    /\ ncalls < MaxQuotes
    /\ masked_text' = masked_text \o <<"\n">> \o masked_text
    /\ ncalls' = ncalls + 1
    /\ UNCHANGED <<HASH_ALGORITHM, masking_dict, instance_counters, fake_state, last, nruns,
                   first_masked, text, restored_text, unmask_stats, pc>>
NextMissing == MaskText \/ QuoteAgain \/ UnmaskText
SpecMissing == InitMissing /\ [][NextMissing]_vars

RECURSIVE OccurrencesFound(_, _)
\* the number of occurrences of the masked values in s
OccurrencesFound(s, masked_values) ==
    IF masked_values = << >> THEN 0
    ELSE Len(find_all_occurrences(s, Head(masked_values)))
         + OccurrencesFound(s, Tail(masked_values))
\* the masked text as it was before it was quoted again
QuotedOnce == Prefix(masked_text, (Len(masked_text) - 1) \div 2)

\* C16: an occurrence of a masked value whose instance number has no original in the mapping
\* is left as it is in the output and counted in skipped_count, and the other occurrences are
\* still restored: the quoted copy of the masked text comes out as it went in, the text before
\* it is restored as it is without the copy, with the same restored_count, and skipped_count
\* grows; in the pass over the categories other than rank restored_count + skipped_count is
\* the number of occurrences found.
C16_MissingInstanceSkipped ==
    (pc = "done" /\ ncalls = 1) =>
        /\ Suffix(restored_text, Len(QuotedOnce)) = QuotedOnce
        /\ \E masks \in Orders(AllMaskedRanks(masking_dict)) :
               LET alone == unmask_text_v2(QuotedOnce, masking_dict, "v2.1", masks)
               IN  /\ Prefix(restored_text, Len(restored_text) - Len(QuotedOnce) - 1) = alone.text
                   /\ unmask_stats.restored_count = alone.stats.restored_count
                   /\ unmask_stats.skipped_count > alone.stats.skipped_count
        /\ \E masks \in Orders(AllMaskedRanks(masking_dict)) :
               LET ranks == unmask_ranks_gender_aware(masked_text, masking_dict, masks)
               IN  unmask_stats.restored_count + unmask_stats.skipped_count
                       = ranks.stats.restored_count + ranks.stats.skipped_count
                         + OccurrencesFound(
                               ranks.text,
                               build_instance_map(masking_dict, Categories \ {"rank"}).keys)
\* a quoted text was unmasked: some occurrences were restored and some were skipped
C16_Witness ==
    /\ pc = "done"
    /\ ncalls = 1
    /\ unmask_stats.restored_count > 0
    /\ unmask_stats.skipped_count > 0
    /\ restored_text # masked_text

-----------------------------------------------------------------------------
(* Grammatical case and gender of a rank through masking and unmasking *)

GrammarTexts ==
    {<<"s", "o", "l", "d", "a", "t", "u", " ", "P", "e", "t", "r", "e", "n", "k", "u", " ", "I", "v", "a", "n", "u">>,
     <<"k", "a", "p", "i", "t", "a", "n", "u", " ", "P", "e", "t", "r", "e", "n", "k", "u", " ", "I", "v", "a", "n", "u">>,
     <<"s", "o", "l", "d", "a", "t", "c", "i", " ", "P", "e", "t", "r", "e", "n", "k", "o", " ", "O", "l", "e", "n", "i">>,
     <<"m", "a", "j", "o", "r", "a", " ", "m", "e", "d", "y", "ch", "n", "o", "yi", " ", "s", "l", "u", "zh", "b", "y", " ", "K", "o", "v", "a", "l", "ya", " ", "H", "r", "y", "h", "o", "r", "i", "ya">>,
     <<"s", "t", "a", "r", "sh", "o", "h", "o", " ", "s", "o", "l", "d", "a", "t", "a", " ", "P", "e", "t", "r", "e", "n", "k", "a", " ", "I", "v", "a", "n", "a">>,
     <<"k", "a", "p", "i", "t", "a", "n", "k", "o", "yu", " ", "P", "e", "t", "r", "e", "n", "k", "o", " ", "O", "l", "e", "n", "o", "yu">>,
     <<"h", "e", "n", "e", "r", "a", "l", "o", "m", " ", "K", "o", "v", "a", "l", "e", "m", " ", "H", "r", "y", "h", "o", "r", "i", "ye", "m">>,
     <<"m", "a", "t", "r", "o", "s", "u", " ", "u", " ", "v", "i", "d", "s", "t", "a", "v", "c", "i", " ", "P", "e", "t", "r", "e", "n", "k", "u", " ", "I", "v", "a", "n", "u">>,
     <<"S", "o", "l", "d", "a", "t", "a", " ", "P", "e", "t", "r", "e", "n", "k", "a", " ", "I", "v", "a", "n", "a">>,
     <<"s", "t", "a", "r", "sh", "i", "j", " ", "s", "o", "l", "d", "a", "t", "c", "i", " ", "P", "e", "t", "r", "e", "n", "k", "o", " ", "O", "l", "e", "n", "i">>}

\* a fresh process that is given one line whose rank stands in an oblique case or a female form
InitGrammar ==
    /\ InitRun
    /\ pc = "mask"
    /\ text \in GrammarTexts
    /\ masked_text = << >>
    /\ restored_text = << >>
    /\ unmask_stats = NoStats
SpecGrammar == InitGrammar /\ [][NextText]_vars

\* the rank occurrence of a line: what the reverse index says of its base part, and the words
\* that follow the base part
GrammarOf(s) ==
    LET parts == extract_base_rank(parse_hybrid_line(s).rank)
    IN  [info |-> get_rank_info(parts.base), additional |-> lower(parts.additional)]

\* the value under which the base rank of the line's rank occurrence is registered
MaskedBaseOf(s) == lower(masking_dict.mappings["rank"][GrammarOf(s).info[1]].masked_as)

\* the tables hold the forms of a masked base in every case of the given gender
Declines(masked_base, gender) ==
    /\ masked_base \in DOMAIN RANK_DECLENSIONS
    /\ gender = "female" =>
          /\ masked_base \in DOMAIN RANK_FEMININE_MAP
          /\ RANK_FEMININE_MAP[masked_base] \in DOMAIN RANK_DECLENSIONS_FEMALE

\* the masked line carries the grammar of the original one, the restored line its rank form
GrammarKept ==
    LET original == GrammarOf(text)
    IN  /\ LET masked == GrammarOf(masked_text)
           IN  /\ masked.info[2] = original.info[2]
               /\ masked.info[3] = original.info[3]
               /\ masked.additional = original.additional
        /\ pc = "done" => GrammarOf(restored_text) = original

-----------------------------------------------------------------------------
(* The clamp of mask_date as a function of the two draws *)

ClampDates == {<<"0", "1", ".", "0", "1", ".", "2", "0", "1", "5">>, <<"2", "3", ".", "1", "2", ".", "2", "0", "3", "5">>,
               <<"1", "5", ".", "0", "3", ".", "2", "0", "2", "4">>}
FirstDraws == {-30, 0, 15}
SecondDraws == 0..365

\* the date of a valid original moved by the first draw
MovedBy(original, shift) ==
    LET d == ParseDate(original) IN FromOrdinal(ToOrdinal(d.day, d.month, d.year) + shift)

\* new_date and masked of mask_date for a valid original, the values of random.randint(-30, 30)
\* and of random.randint(0, 365) being given
ClampDate ==
    /\ pc = "calls"
    /\ ncalls = 0
    /\ ncalls' = 1
    /\ \E original \in ClampDates, shift \in FirstDraws, draw \in SecondDraws :
          last' = [op |-> "mask_date", category |-> "clamp", arg |-> FormatDate(MovedBy(original, shift)),
                   gender |-> "", supplied |-> <<draw>>,
                   ret |-> FormatDate(ClampedDate(MovedBy(original, shift), draw))]
    /\ UNCHANGED <<HASH_ALGORITHM, masking_dict, instance_counters, fake_state, nruns,
                   first_masked, text, masked_text, restored_text, unmask_stats, pc>>
SpecClamp == Init /\ [][ClampDate]_vars

\* C18: when the shifted date falls in a year below 2015 mask_date returns a date inside the
\* year 2015, and when it falls in a year above 2035 a date inside the year 2035, for every
\* value of the second draw
C18_ClampedIntoBoundaryYear ==
    (last.op = "mask_date" /\ last.category = "clamp") =>
        /\ ParseDate(last.arg).year < MinYear => ParseDate(last.ret).year = MinYear
        /\ ParseDate(last.arg).year > MaxYear => ParseDate(last.ret).year = MaxYear

-----------------------------------------------------------------------------
(* The index shift of mask_rank *)

\* the index of a base rank in a hierarchy that holds it
RankIndex(hierarchy, rank) == CHOOSE i \in DOMAIN hierarchy : lower(hierarchy[i]) = lower(rank)

\* every one of the eleven draws made for a key leaves index i of the hierarchy where it is
AllDrawsClamped(hierarchy, i, key) ==
    \A k \in 1..11 :
        ShiftedRank(hierarchy, i, choice(get_deterministic_seed(key), k, RankShifts)) = hierarchy[i]

\* C19: for a base rank at index i of its hierarchy of length n, the freshly generated masked
\* rank is the entry of that hierarchy at an index j within the hierarchy with |i - j| <= 2;
\* j differs from i whenever i is not the first or last index, and j = i only at a hierarchy
\* end after the initial draw and all 10 retries were clamped back to i
C19_RankIndexShift ==
    (Generated /\ last.op = "mask_rank" /\ lower(last.arg) \in AllBaseRanks) =>
        \E c \in CategoriesOf(last.arg) :
            LET hierarchy == Hierarchy(c)
                i == RankIndex(hierarchy, last.arg)
            IN  \E j \in DOMAIN hierarchy :
                    /\ lower(hierarchy[j]) = lower(last.ret)
                    /\ j - i \in -2..2
                    /\ i \notin {1, Len(hierarchy)} => j # i
                    /\ j = i => /\ i \in {1, Len(hierarchy)}
                                /\ GenerateRank(lower(last.arg)).attempts = 10
                                /\ AllDrawsClamped(hierarchy, i, lower(last.arg))

-----------------------------------------------------------------------------
(* Offsets of the spans of mask_text_context_aware *)

OffsetTexts ==
    {<<"5", " ", "o", "m", "b", "r", " ", "#", " ", "1", "2", "3", "4", "5", "6", "7", "8", "9", "0", " ", "1", "5", ".", "0", "3", ".", "2", "0", "2", "4">>,
     <<"#", " ", "1", "2", "3", "4", "5", "6", "7", "8", "9", "0">>,
     <<"#", " ", "B", "R", "-", "1", "2", "/", "3", "4", " ", "i", " ", "B", "R", "-", "7", "7">>,
     <<"5", " ", "o", "m", "b", "r", " ", "1", "5", ".", "0", "3", ".", "2", "0", "2", "4">>,
     <<"#", " ", "1", "2", "/", "3", "4", " ", "v", "i", "d", " ", "1", "5", ".", "0", "3", ".", "2", "0", "2", "4", " ", "5", " ", "o", "m", "b", "r">>,
     <<"A", "B", "-", "1", "2", "3", "4", "5", "6", " ", "A", "1", "2", "3", "4">>,
     <<"1", "5", ".", "0", "3", ".", "2", "0", "2", "4", " ", "#", " ", "7", " ", "1", "2", "3", "4", "5", "6", "7", "8", "9", "0">>,
     <<"9", "3", " ", "o", "m", "b", "r", " ", "#", " ", "5", " ", "1", "2", "3", "4", "5", "6", "7", "8", "9">>,
     <<"B", "R", "-", "1", "2", "3", "4", "5", "6", "7", "8", "9", " ", "1", "0", " ", "o", "m", "b", "r">>}

\* a fresh process that is given one text in which several passes find spans
InitOffsets ==
    /\ InitRun
    /\ pc = "mask"
    /\ text \in OffsetTexts
    /\ masked_text = << >>
    /\ restored_text = << >>
    /\ unmask_stats = NoStats
SpecOffsets == InitOffsets /\ [][NextText]_vars

\* every span a pass finds, in the order of the passes, before any test against other spans;
\* the flag tells which test against the skip spans the pass makes
Candidates(s) ==
    LET Tagged(items, skip_on_overlap) ==
            [k \in DOMAIN items |-> [item |-> items[k], skip_on_overlap |-> skip_on_overlap]]
    IN  Tagged(NumberSignItems(s), TRUE) \o Tagged(BrKeywordItems(s), TRUE)
        \o Tagged(IpnItems(s), FALSE) \o Tagged(PassportItems(s), FALSE)
        \o Tagged(MilitaryIdItems(s), FALSE) \o Tagged(MilitaryUnitItems(s), FALSE)
        \o Tagged(BrigadeItems(s), FALSE) \o Tagged(DateItems(s), FALSE)

RECURSIVE OffsetsSafe(_, _)
\* the substitution loop over the items still to come: the text at the span of the next item
\* is the literal found at detection time, and its substitution leaves the literal of every item
\* after it where it was
OffsetsSafe(st, items) ==
    \/ items = << >>
    \/ /\ Cut(st.text, Head(items).start, Head(items).end) = Head(items).full_text
       /\ LET after == SubstituteItem(st, Head(items))
          IN  /\ \A k \in DOMAIN Tail(items) :
                     Cut(after.text, Tail(items)[k].start, Tail(items)[k].end)
                        = Tail(items)[k].full_text
              /\ OffsetsSafe(after, Tail(items))

\* C20: the accepted spans are pairwise non-overlapping and a dropped candidate conflicts with
\* a span registered before it (or with a skip span); the accepted spans are processed in
\* descending order of their start, each one finds at [start, end) the literal matched at
\* detection time, no substitution moves or overwrites a span still pending, and every
\* accepted span is substituted and recorded
C20_OffsetSafeSubstitution ==
    pc # "mask" =>
        LET s == normalize_broken_ranks(text)
            accepted == items_to_mask(s)
            sorted == SortByStartDescending(accepted)
            cands == Candidates(s)
        IN  /\ \A j, k \in DOMAIN accepted : j # k => ~Overlaps(accepted[j], accepted[k])
            /\ \A k \in DOMAIN cands :
                  (\A j \in DOMAIN accepted : accepted[j] # cands[k].item) =>
                      \/ \E j \in 1..(k - 1) :
                            /\ Overlaps(cands[k].item, cands[j].item)
                            /\ \E a \in DOMAIN accepted : accepted[a] = cands[j].item
                      \/ \E z \in items_to_skip(s) : Overlaps(cands[k].item, z)
            /\ \A j, k \in DOMAIN sorted : j < k => sorted[j].start > sorted[k].start
            /\ OffsetsSafe([text |-> s, md |-> EmptyMaskingDict, ic |-> EmptyFcn], sorted)
            /\ \A k \in DOMAIN accepted :
                  \E c \in Categories :
                      DOMAIN masking_dict.mappings[c]
                          \cap {accepted[k].number_part, accepted[k].full_text} # {}

\* C20 witness: a text in which a candidate was dropped and three spans were substituted,
\* the first of them by a value of another length
C20_Witness ==
    LET s == normalize_broken_ranks(text)
    IN  /\ pc = "done"
        /\ Len(items_to_mask(s)) = 3
        /\ Len(Candidates(s)) > 3
        /\ Len(masked_text) # Len(text)
        /\ restored_text = text

-----------------------------------------------------------------------------
(* build_instance_map over stores written by masking and over mapping files *)

RECURSIVE Loaded(_)
\* the mapping that json.load returns for a file with the given records
\* <<category, original, masked_as, instances>>; a record without "instances" has << >> there,
\* which is what mask_info.get("instances", []) reads
Loaded(records) ==
    IF records = << >> THEN EmptyMaskingDict
    ELSE LET md == Loaded(SubSeq(records, 1, Len(records) - 1))
             r == records[Len(records)]
         IN  [mappings |-> [md.mappings EXCEPT ![r[1]] =
                                Extend(@, r[2], [masked_as |-> r[3], instances |-> r[4]])],
              statistics |-> [md.statistics EXCEPT ![r[1]] = @ + 1],
              order |-> Append(md.order, <<r[1], r[2]>>)]

LoadedMappings ==
    {Loaded(<< >>),
     Loaded(<<<<"surname", <<"p", "e", "t", "r", "e", "n", "k", "o">>, <<"I", "v", "a", "n", "e", "n", "k", "o">>, <<1>>>>>>),
     Loaded(<<<<"surname", <<"p", "e", "t", "r", "e", "n", "k", "o">>, <<"I", "v", "a", "n", "e", "n", "k", "o">>, <<1>>>>, <<"surname", <<"s", "y", "d", "o", "r", "e", "n", "k", "o">>, <<"I", "v", "a", "n", "e", "n", "k", "o">>, <<2, 3>>>>>>),
     Loaded(<<<<"surname", <<"p", "e", "t", "r", "e", "n", "k", "o">>, <<"I", "v", "a", "n", "e", "n", "k", "o">>, <<1>>>>, <<"name", <<"a", "n", "d", "r", "i", "j">>, <<"P", "e", "t", "r", "o">>, <<1>>>>>>),
     Loaded(<<<<"surname", <<"p", "e", "t", "r", "e", "n", "k", "o">>, <<"I", "v", "a", "n", "e", "n", "k", "o">>, << >>>>>>),
     Loaded(<<<<"surname", <<"p", "e", "t", "r", "e", "n", "k", "o">>, <<"I", "v", "a", "n", "e", "n", "k", "o">>, <<1, 3>>>>, <<"name", <<"a", "n", "d", "r", "i", "j">>, <<"I", "v", "a", "n", "e", "n", "k", "o">>, <<2>>>>,
              <<"surname", <<"s", "y", "d", "o", "r", "e", "n", "k", "o">>, <<"P", "e", "t", "r", "o">>, << >>>>>>)}

\* main() of unmask_data: the mapping is read from a file instead of being written by a run
LoadMapping ==
    /\ pc = "calls"
    /\ ncalls = 0
    /\ masking_dict' \in LoadedMappings
    /\ pc' = "unmask"
    /\ UNCHANGED <<HASH_ALGORITHM, instance_counters, fake_state, last, ncalls, nruns,
                   first_masked, text, masked_text, restored_text, unmask_stats>>
NextInstanceMap == CallAddToMapping \/ LoadMapping
SpecInstanceMap == Init /\ [][NextInstanceMap]_vars

\* the records of a mapping as <<category, original>> pairs
Records(md) == {p \in Categories \X UNION {DOMAIN md.mappings[c] : c \in Categories} :
                   p[2] \in DOMAIN md.mappings[p[1]]}
RecordOf(md, p) == md.mappings[p[1]][p[2]]

\* C21: build_instance_map holds map[masked_as][n] = original for every record and every n of
\* its instances, and nothing else; a record without instances gives its masked value an
\* inner map with no entry of that record; in a store written by masking no pair of a masked
\* value and an instance number belongs to two different originals
C21_BuildInstanceMap ==
    LET map == build_instance_map(masking_dict, Categories).map
        recs == Records(masking_dict)
    IN  /\ \A p \in recs :
              /\ RecordOf(masking_dict, p).masked_as \in DOMAIN map
              /\ \A n \in Range(RecordOf(masking_dict, p).instances) :
                    /\ n \in DOMAIN map[RecordOf(masking_dict, p).masked_as]
                    /\ map[RecordOf(masking_dict, p).masked_as][n] = p[2]
        /\ \A m \in DOMAIN map :
              /\ \E p \in recs : RecordOf(masking_dict, p).masked_as = m
              /\ \A n \in DOMAIN map[m] :
                    \E p \in recs : /\ RecordOf(masking_dict, p).masked_as = m
                                     /\ n \in Range(RecordOf(masking_dict, p).instances)
                                     /\ map[m][n] = p[2]
        /\ \A p \in recs :
              (/\ RecordOf(masking_dict, p).instances = << >>
               /\ \A q \in recs \ {p} :
                     RecordOf(masking_dict, q).masked_as # RecordOf(masking_dict, p).masked_as)
                  => map[RecordOf(masking_dict, p).masked_as] = EmptyFcn
        /\ pc = "calls" =>
              \A p, q \in recs :
                  (/\ p[2] # q[2]
                   /\ RecordOf(masking_dict, p).masked_as = RecordOf(masking_dict, q).masked_as)
                      => Range(RecordOf(masking_dict, p).instances)
                            \cap Range(RecordOf(masking_dict, q).instances) = {}

\* C21 witness: a store written by masking in which two originals share one masked value, with
\* three instance numbers between them
C21_Witness ==
    /\ pc = "calls"
    /\ \E p, q \in Records(masking_dict) :
          /\ p[2] # q[2]
          /\ RecordOf(masking_dict, p).masked_as = RecordOf(masking_dict, q).masked_as
          /\ Len(RecordOf(masking_dict, p).instances) + Len(RecordOf(masking_dict, q).instances) = 3
    /\ \E m \in DOMAIN build_instance_map(masking_dict, Categories).map :
          DOMAIN build_instance_map(masking_dict, Categories).map[m] = {1, 2, 3}

-----------------------------------------------------------------------------
(* Lines that parse_hybrid_line rejects *)

\* lines rejected in the first round: a name group of one token, a name group with an
\* administrative noun (without and with a rank), a rank text with a run of two digits, a rank
\* text of more than 60 characters
RejectedLines ==
    {<<"s", "o", "l", "d", "a", "t", " ", "P", "e", "t", "r", "e", "n", "k", "o">>,
     <<"N", "a", "k", "a", "z", " ", "P", "e", "t", "r", "e", "n", "k", "o", " ", "I", "v", "a", "n">>,
     <<"s", "o", "l", "d", "a", "t", " ", "P", "e", "t", "r", "e", "n", "k", "o", " ", "I", "v", "a", "n", " ", "N", "a", "k", "a", "z", " ", "K", "o", "d", "e", "k", "s">>,
     <<"s", "o", "l", "d", "a", "t", ".", "1", "2", " ", "P", "e", "t", "r", "e", "n", "k", "o", " ", "I", "v", "a", "n">>,
     <<"s", "o", "l", "d", "a", "t", ";", "a", "a", "a", "a", "a", "a", "a", "a", "a", "a", "a", "a", "a", "a", "a", "a", "a", "a", "a", "a", "a", "a", "a", "a", "a", "a", "a", "a", "a", "a", "a", "a", "a", "a", "a", "a", "a", "a", "a", "a", "a", "a", "a", "a", "a", "a", "a", "a", "a", "a", "a", "a", "a", "a", "a", " ", "P", "e", "t", "r", "e", "n", "k", "o", " ", "I", "v", "a", "n">>}
\* lines whose first pair is extracted and whose rest is rejected in the second round, with
\* the rest
RejectedRest ==
    (<<"s", "o", "l", "d", "a", "t", " ", "P", "e", "t", "r", "e", "n", "k", "o", " ", "I", "v", "a", "n", " ", "i", " ", "S", "t", "a", "t", "u", "t", " ", "P", "o", "l", "o", "zh", "e", "n", "n", "ya">> :> <<" ", "i", " ", "S", "t", "a", "t", "u", "t", " ", "P", "o", "l", "o", "zh", "e", "n", "n", "ya">>)
    @@ (<<"s", "o", "l", "d", "a", "t", " ", "P", "e", "t", "r", "e", "n", "k", "o", " ", "I", "v", "a", "n", " ", "i", " ", "m", "a", "j", "o", "r", " ", "K", "o", "v", "a", "l", "q">> :> <<" ", "i", " ", "m", "a", "j", "o", "r", " ", "K", "o", "v", "a", "l", "q">>)

InitRejected ==
    /\ InitRun
    /\ pc = "mask"
    /\ text \in RejectedLines \cup DOMAIN RejectedRest
    /\ masked_text = << >>
    /\ restored_text = << >>
    /\ unmask_stats = NoStats
SpecRejected == InitRejected /\ [][NextText]_vars

RECURSIVE CountersOver(_, _)
CountersOver(ic, keys) ==
    IF keys = {} THEN 0
    ELSE LET m == CHOOSE m \in keys : TRUE IN ic[m] + CountersOver(ic, keys \ {m})
\* the sum of the instance counters
CountersTotal(ic) == CountersOver(ic, DOMAIN ic)

\* C22: a line that parse_hybrid_line rejects is left as it is and nothing is recorded; when
\* the rejection comes in a later round, that round substitutes nothing, the line is not
\* processed further and the store holds the records of the earlier round only
C22_RejectedNotMasked ==
    pc # "mask" =>
        /\ text \in RejectedLines =>
              /\ masked_text = text
              /\ masking_dict = EmptyMaskingDict
              /\ instance_counters = EmptyFcn
        /\ text \in DOMAIN RejectedRest =>
              /\ Suffix(masked_text, Len(RejectedRest[text])) = RejectedRest[text]
              /\ Cardinality(AllKeys(masking_dict)) = 3
              /\ CountersTotal(instance_counters) = 3

\* C22 witness: the first pair of a line was masked and the rest, rejected for its
\* administrative nouns, stands as it was
C22_Witness ==
    /\ pc = "done"
    /\ text \in DOMAIN RejectedRest
    /\ masked_text # text
    /\ Suffix(masked_text, 17) = Suffix(text, 17)
    /\ Cardinality(AllKeys(masking_dict)) = 3
-----------------------------------------------------------------------------
(* The rounds of the while loop over one line *)

RankAndName == <<"m", "a", "j", "o", "r", " ", "H", "u", "k", " ", "I", "v", "a", "n">>
OtherLine == <<"s", "o", "l", "d", "a", "t", " ", "P", "e", "t", "r", "e", "n", "k", "o", " ", "I", "v", "a", "n">>

RECURSIVE Pairs(_)
\* a line of n pairs of a rank and a name group
Pairs(n) == IF n = 1 THEN RankAndName ELSE Pairs(n - 1) \o <<" ">> \o RankAndName

\* a line of one pair more than the loop has rounds
LongLine == Pairs(11)

\* lines of fewer pairs than the loop has rounds, alone and followed by another line, and
\* a line of more pairs followed by another line
LoopTexts ==
    {Pairs(1), Pairs(2), Pairs(3), Pairs(4), Pairs(1) \o <<"\n">> \o OtherLine,
     Pairs(2) \o <<"\n">> \o OtherLine,
     Pairs(3) \o <<"\n">> \o OtherLine, LongLine \o <<"\n">> \o OtherLine}

\* the long line is masked in one run, the short ones in every run
InitLoop ==
    /\ InitRun
    /\ pc = "mask"
    /\ text \in LoopTexts
    /\ LongLine \in Range(SplitLines(text)) =>
           HASH_ALGORITHM = "sha256" /\ fake_state.seed = SeedSpace + 1
    /\ masked_text = << >>
    /\ restored_text = << >>
    /\ unmask_stats = NoStats
SpecLoop == InitLoop /\ [][NextText]_vars

RECURSIVE InstancesOver(_, _)
InstancesOver(records, keys) ==
    IF keys = {} THEN 0
    ELSE LET o == CHOOSE o \in keys : TRUE
         IN  Len(records[o].instances) + InstancesOver(records, keys \ {o})
\* the number of substitutions recorded in one category
InstancesIn(md, category) == InstancesOver(md.mappings[category], DOMAIN md.mappings[category])

\* C23: the loop over one line ends after at most MaxIterations rounds: no line gets more than
\* MaxIterations rank records and MaxIterations name groups masked, the pairs after them stay
\* as they were, and the line after an exhausted line is processed
C23_LoopBounded ==
    pc # "mask" =>
        /\ \A category \in {"rank", "surname"} :
               InstancesIn(masking_dict, category) <= MaxIterations * Len(SplitLines(text))
        /\ Len(SplitLines(masked_text)) = Len(SplitLines(text))
        /\ \A i \in 1..Len(SplitLines(text)) :
               /\ SplitLines(text)[i] = LongLine =>
                      Suffix(SplitLines(masked_text)[i], Len(RankAndName)) = RankAndName
               /\ SplitLines(text)[i] = OtherLine => SplitLines(masked_text)[i] # OtherLine

\* C23 witness: a line of one pair more than the loop has rounds was masked in all rounds and
\* the line after it was masked too
C23_Witness ==
    /\ pc = "done"
    /\ Len(SplitLines(text)) = 2
    /\ SplitLines(text)[1] = LongLine
    /\ InstancesIn(masking_dict, "rank") = MaxIterations + 1
    /\ SplitLines(masked_text)[2] # OtherLine
    /\ Suffix(SplitLines(masked_text)[1], Len(RankAndName)) = RankAndName
-----------------------------------------------------------------------------
(* Lines of two pairs of a rank and a name group *)

PairRanks == {<<"m", "a", "j", "o", "r">>, <<"k", "a", "p", "i", "t", "a", "n">>, <<"l", "e", "j", "t", "e", "n", "a", "n", "t">>, <<"p", "o", "l", "k", "o", "v", "n", "y", "k">>}
FirstNames == <<"H", "u", "k", " ", "I", "v", "a", "n">>
SecondNames == <<"K", "o", "v", "a", "l", "q", " ", "P", "e", "t", "r", "o">>
PairLine(r1, r2) == r1 \o <<" ">> \o FirstNames \o <<" ">> \o r2 \o <<" ">> \o SecondNames

InitPairs ==
    /\ InitRun
    /\ pc = "mask"
    /\ text \in {PairLine(r1, r2) : r1, r2 \in PairRanks}
    /\ masked_text = << >>
    /\ restored_text = << >>
    /\ unmask_stats = NoStats
SpecPairs == InitPairs /\ [][NextText]_vars

\* the masked values of a rank and its name group, in the order of the line
MaskedPair(rank, names) ==
    MaskedAs("rank", rank) \o <<" ">> \o MaskedAs("surname", split(names)[1]) \o <<" ">>
        \o MaskedAs("name", split(names)[2])

\* C24: on a line of two pairs the output copy holds, at the place of each pair, the masked
\* values recorded for that pair: the second round neither matches nor changes what the
\* first round wrote
C24_PairsMaskedInPlace ==
    pc # "mask" =>
        \A r1, r2 \in PairRanks :
            text = PairLine(r1, r2) =>
                masked_text = MaskedPair(r1, FirstNames) \o <<" ">> \o MaskedPair(r2, SecondNames)
-----------------------------------------------------------------------------
(* The instance numbers of a masked value over all records *)

\* the records of the store whose masked value is M
RecordsMaskedAs(M) == {p \in Records(masking_dict) : RecordOf(masking_dict, p).masked_as = M}
StrictlyIncreasing(seq) == \A i, j \in DOMAIN seq : i < j => seq[i] < seq[j]

\* C25: for every masked value M the instance lists of the records masked as M are strictly
\* increasing, pairwise disjoint, and together hold exactly the numbers 1..instance_counters[M]
C25_InstancesPartitionCounter ==
    \A M \in DOMAIN instance_counters
             \cup {RecordOf(masking_dict, p).masked_as : p \in Records(masking_dict)} :
        /\ \A p \in RecordsMaskedAs(M) : StrictlyIncreasing(RecordOf(masking_dict, p).instances)
        /\ \A p, q \in RecordsMaskedAs(M) :
               p # q => Range(RecordOf(masking_dict, p).instances)
                            \cap Range(RecordOf(masking_dict, q).instances) = {}
        /\ UNION {Range(RecordOf(masking_dict, p).instances) : p \in RecordsMaskedAs(M)}
               = 1..CounterOf(instance_counters, M)

\* C25 witness: two originals share a masked value and their lists interleave
C25_Witness ==
    \E p, q \in Records(masking_dict) :
        /\ p # q
        /\ RecordOf(masking_dict, p).masked_as = RecordOf(masking_dict, q).masked_as
        /\ RecordOf(masking_dict, p).instances = <<1, 3>>
        /\ RecordOf(masking_dict, q).instances = <<2>>
        /\ instance_counters[RecordOf(masking_dict, p).masked_as] = 3
-----------------------------------------------------------------------------
(* Rank forms nested in longer rank forms *)

NestedRanks == {<<"m", "o", "l", "o", "d", "sh", "y", "j", " ", "l", "e", "j", "t", "e", "n", "a", "n", "t">>, <<"s", "t", "a", "r", "sh", "y", "j", " ", "p", "r", "a", "p", "o", "r", "sch", "y", "k">>, <<"m", "a", "j", "o", "r">>, <<"s", "e", "r", "zh", "a", "n", "t">>, <<"k", "a", "p", "i", "t", "a", "n">>, <<"s", "t", "a", "r", "sh", "y", "j", " ", "s", "e", "r", "zh", "a", "n", "t">>}
TwoLines(r1, r2) == r1 \o <<" ">> \o FirstNames \o <<"\n">> \o r2 \o <<" ">> \o SecondNames

InitNested ==
    /\ InitRun
    /\ pc = "mask"
    /\ text \in {TwoLines(r1, r2) : r1, r2 \in NestedRanks}
    /\ masked_text = << >>
    /\ restored_text = << >>
    /\ unmask_stats = NoStats
SpecNested == InitNested /\ [][NextText]_vars

NonOverlapping(replacements) ==
    \A i, j \in DOMAIN replacements :
        i # j => \/ replacements[i].end <= replacements[j].start
                 \/ replacements[j].end <= replacements[i].start

\* C26: the replacements that unmask_ranks_gender_aware schedules for a masked text are
\* pairwise non-overlapping ranges of that text
C26_RankReplacementsDisjoint ==
    pc = "done" =>
        \A masks \in Orders(AllMaskedRanks(masking_dict)) :
            NonOverlapping(ScheduledRanks(masked_text, masking_dict, masks).replacements)

\* C27: unmask_ranks_gender_aware counts every masked rank once for each of its occurrences
\* written by masking: a rank form nested in a longer form that was matched advances no counter
C27_OneInstancePerOccurrence ==
    pc = "done" =>
        \A masks \in Orders(AllMaskedRanks(masking_dict)) :
            \A M \in AllMaskedRanks(masking_dict) :
                CounterOf(ScheduledRanks(masked_text, masking_dict, masks).counters, M)
                    = CounterOf(instance_counters, M)
-----------------------------------------------------------------------------
(* Masked values that differ in letter case only *)

\* a name group written surname first, and one in capitals written name first
CaseLines ==
    {<<"m", "a", "j", "o", "r", " ", "H", "u", "k", " ", "P", "e", "t", "r", "o">>,
     <<"s", "o", "l", "d", "a", "t", " ", "K", "o", "v", "a", "l", "q", " ", "I", "v", "a", "n">>,
     <<"m", "a", "j", "o", "r", " ", "H", "u", "k", " ", "I", "v", "a", "n">>}
UpperLines ==
    {<<"m", "a", "j", "o", "r", " ", "P", "E", "T", "R", "O", " ", "SH", "E", "V", "CH", "E", "N", "K", "O">>,
     <<"m", "a", "j", "o", "r", " ", "I", "V", "A", "N", " ", "SH", "E", "V", "CH", "E", "N", "K", "O">>}

InitUpper ==
    /\ InitRun
    /\ pc = "mask"
    /\ text \in {a \o <<"\n">> \o b : a \in CaseLines, b \in UpperLines}
                \cup {b \o <<"\n">> \o a : a \in CaseLines, b \in UpperLines}
    /\ masked_text = << >>
    /\ restored_text = << >>
    /\ unmask_stats = NoStats
SpecUpper == InitUpper /\ [][NextText]_vars

\* the text that unmask_other_data is given: the masked text with its ranks restored
RanksRestored(masks) == unmask_ranks_gender_aware(masked_text, masking_dict, masks).text

RECURSIVE Written(_, _)
\* the number of the replacements that the last loop of unmask_other_data writes to the text
Written(s, replacements) ==
    IF replacements = << >> THEN 0
    ELSE LET r == Head(replacements)
             applies == lower(Cut(s, r.start, r.end)) = lower(r.masked_value)
         IN  (IF applies THEN 1 ELSE 0)
             + Written(IF applies
                       THEN ReplaceSpan(s, r.start, r.end,
                                        _apply_original_case_unmask(Cut(s, r.start, r.end),
                                                                    r.original_value))
                       ELSE s,
                       Tail(replacements))

\* C28: the replacements that unmask_other_data schedules are pairwise non-overlapping, every
\* one of them is written to the text, and restored_count is the number of those written
C28_OtherReplacementsDisjoint ==
    pc = "done" =>
        \A masks \in Orders(AllMaskedRanks(masking_dict)) :
            LET scheduled == ScheduledOthers(RanksRestored(masks), masking_dict)
            IN  /\ NonOverlapping(scheduled.replacements)
                /\ Written(RanksRestored(masks), SortByStartDescending(scheduled.replacements))
                       = scheduled.stats.restored_count
-----------------------------------------------------------------------------
(* Instance numbers and the substitutions written to the output *)

\* lines of one pair with single and with double spaces, and a numbered line
SpacedLines ==
    {<<"m", "a", "j", "o", "r", " ", "H", "u", "k", " ", "I", "v", "a", "n">>,
     <<"m", "a", "j", "o", "r", " ", "H", "u", "k", " ", " ", "I", "v", "a", "n">>,
     <<"m", "a", "j", "o", "r", " ", " ", "H", "u", "k", " ", "I", "v", "a", "n">>,
     <<"s", "o", "l", "d", "a", "t", " ", "K", "o", "v", "a", "l", "q", " ", "P", "e", "t", "r", "o">>,
     <<"s", "o", "l", "d", "a", "t", " ", "K", "o", "v", "a", "l", "q", " ", " ", "P", "e", "t", "r", "o">>,
     <<"1", ".", " ", "m", "a", "j", "o", "r", " ", "H", "u", "k", " ", "I", "v", "a", "n">>}

InitSpaced ==
    /\ InitRun
    /\ pc = "mask"
    /\ text \in SpacedLines
    /\ masked_text = << >>
    /\ restored_text = << >>
    /\ unmask_stats = NoStats
SpecSpaced == InitSpaced /\ [][NextText]_vars

\* C29: after masking, the counter of every masked value is the number of the places of the
\* output where that value stands: no instance number is recorded for an occurrence that was
\* not replaced
C29_CountersMatchOutput ==
    pc # "mask" =>
        \A M \in DOMAIN instance_counters :
            instance_counters[M] = Len(find_all_occurrences(masked_text, M))
-----------------------------------------------------------------------------
(* JSON input: the string leaves of a document in traversal order *)

RECURSIVE mask_json_recursive(_, _, _, _)
\* data: the string leaves; every leaf is masked with the store and the counters left by
\* the leaves before it
mask_json_recursive(data, md, ic, fk) ==
    IF data = << >> THEN [ret |-> << >>, md |-> md, ic |-> ic, fk |-> fk]
    ELSE
    With([leaf \in {mask_text_context_aware(Head(data), md, ic, fk)} |->
    With([rest \in {mask_json_recursive(Tail(data), leaf.md, leaf.ic, leaf.fk)} |->
        [rest EXCEPT !.ret = <<leaf.ret>> \o rest.ret]])])

\* every leaf is unmasked by a call of its own
unmask_json_recursive(masked_data, md, map_version, masks) ==
    [i \in DOMAIN masked_data |-> unmask_text_v2(masked_data[i], md, map_version, masks).text]

JsonDocuments == {<<r1 \o <<" ">> \o FirstNames, r2 \o <<" ">> \o SecondNames>> : r1, r2 \in PairRanks}

InitJson ==
    /\ InitRun
    /\ pc = "mask"
    /\ text \in JsonDocuments
    /\ masked_text = << >>
    /\ restored_text = << >>
    /\ unmask_stats = NoStats

MaskJson ==
    /\ pc = "mask"
    /\ \E masked_result \in {mask_json_recursive(text, masking_dict, instance_counters,
                                                 fake_state)} :
           /\ masked_text' = masked_result.ret
           /\ masking_dict' = masked_result.md
           /\ instance_counters' = masked_result.ic
           /\ fake_state' = masked_result.fk
           /\ first_masked' = RecordFirst(masked_result.md)
    /\ pc' = "unmask"
    /\ UNCHANGED <<HASH_ALGORITHM, last, ncalls, nruns, text, restored_text, unmask_stats>>

UnmaskJson ==
    /\ pc = "unmask"
    /\ \E masks \in Orders(AllMaskedRanks(masking_dict)) :
          restored_text' = unmask_json_recursive(masked_text, masking_dict, "v2.1", masks)
    /\ pc' = "done"
    /\ UNCHANGED <<HASH_ALGORITHM, masking_dict, instance_counters, fake_state, last, ncalls,
                   nruns, first_masked, text, masked_text, unmask_stats>>

NextJson == MaskJson \/ UnmaskJson
SpecJson == InitJson /\ [][NextJson]_vars

\* C30: unmasking a JSON document numbers the occurrences of a masked value as masking did:
\* every leaf is restored to its own original, also when a leaf before it holds another
\* original masked to the same value
C30_JsonLeavesRestored ==
    pc = "done" => \A i \in DOMAIN text : restored_text[i] = text[i]
====
